---- MODULE Spec2Model ----
(***************************************************************************)
(* Stabilizer-state measurement and probability enumeration               *)
(* (qiskit/quantum_info/states/stabilizerstate.py).                        *)
(*                                                                         *)
(* A tableau ("clifford") has 2n rows over n qubits: rows 0..n-1 are the   *)
(* destabilizers, rows n..2n-1 the stabilizers.  Every row has x bits,     *)
(* z bits and one phase bit.  Indices are 0-based as in the source.        *)
(***************************************************************************)
EXTENDS Integers, Sequences, FiniteSets, TLC

\* Largest number of qubits of a state.
MaxQubits == 2
\* Largest number of gates of the circuit a state is constructed from.
MaxGates == 3
\* Largest number of in-place _measure_and_update calls explored on one state.
MaxMeasures == 2
\* Largest number of qubits of a layered circuit.
CircuitQubits == 4
\* Largest number of CX gates of a layered circuit.
CircuitCX == 3

VARIABLES
    num_qubits,   \* self.clifford.num_qubits
    clifford,     \* self._data : [x, z, phase]
    ngates,       \* gates applied while constructing the state
    nmeas,        \* _measure_and_update calls applied in place
    op,           \* the operation that produced this state
    res           \* what that operation returned

vars == <<num_qubits, clifford, ngates, nmeas, op, res>>

Bit == {0, 1}

Xor(a, b) == (a + b) % 2

RECURSIVE SumTo(_, _)
\* sum of f[0] .. f[k-1]
SumTo(f, k) == IF k = 0 THEN 0 ELSE f[k - 1] + SumTo(f, k - 1)

(***************************************************************************)
(* Construction of the tableau (Clifford), an external collaborator.       *)
(***************************************************************************)

\* Clifford(np.eye(2 * n)): destabilizer i is X_i, stabilizer i is Z_i.
Identity(n) ==
    [x     |-> [i \in 0..(2 * n - 1) |-> [q \in 0..(n - 1) |-> IF i = q THEN 1 ELSE 0]],
     z     |-> [i \in 0..(2 * n - 1) |-> [q \in 0..(n - 1) |-> IF i = q + n THEN 1 ELSE 0]],
     phase |-> [i \in 0..(2 * n - 1) |-> 0]]

Rows(c) == DOMAIN c.phase

\* _append_h: phase ^= x & z, swap x and z on the qubit, on every row.
AppendH(c, q) ==
    [x     |-> [i \in Rows(c) |-> [c.x[i] EXCEPT ![q] = c.z[i][q]]],
     z     |-> [i \in Rows(c) |-> [c.z[i] EXCEPT ![q] = c.x[i][q]]],
     phase |-> [i \in Rows(c) |-> Xor(c.phase[i], c.x[i][q] * c.z[i][q])]]

\* _append_s: phase ^= x & z, z ^= x on the qubit, on every row.
AppendS(c, q) ==
    [x     |-> c.x,
     z     |-> [i \in Rows(c) |-> [c.z[i] EXCEPT ![q] = Xor(c.z[i][q], c.x[i][q])]],
     phase |-> [i \in Rows(c) |-> Xor(c.phase[i], c.x[i][q] * c.z[i][q])]]

\* _append_cx: phase ^= (x1 ^ z0 ^ 1) & z1 & x0, x1 ^= x0, z0 ^= z1.
AppendCX(c, ctl, tgt) ==
    [x     |-> [i \in Rows(c) |-> [c.x[i] EXCEPT ![tgt] = Xor(c.x[i][tgt], c.x[i][ctl])]],
     z     |-> [i \in Rows(c) |-> [c.z[i] EXCEPT ![ctl] = Xor(c.z[i][ctl], c.z[i][tgt])]],
     phase |-> [i \in Rows(c) |->
                  Xor(c.phase[i],
                      Xor(Xor(c.x[i][tgt], c.z[i][ctl]), 1) * c.z[i][tgt] * c.x[i][ctl])]]

\* _append_x: phase ^= z on the qubit, on every row.
AppendX(c, q) ==
    [c EXCEPT !.phase = [i \in Rows(c) |-> Xor(c.phase[i], c.z[i][q])]]

(***************************************************************************)
(* The symplectic structure of a tableau.                                  *)
(***************************************************************************)

\* 1 iff rows i and j of c anticommute (symplectic product over GF(2)).
RowsAnti(c, n, i, j) ==
    SumTo([q \in 0..(n - 1) |-> c.x[i][q] * c.z[j][q] + c.z[i][q] * c.x[j][q]], n) % 2

\* stabilizer rows pairwise commute; destabilizer i anticommutes with
\* stabilizer i and commutes with every other stabilizer.
Symplectic(c, n) ==
    /\ \A i, j \in n..(2 * n - 1) : RowsAnti(c, n, i, j) = 0
    /\ \A i \in 0..(n - 1) : \A j \in 0..(n - 1) :
           RowsAnti(c, n, i, j + n) = (IF i = j THEN 1 ELSE 0)

(***************************************************************************)
(* Rowsum.                                                                 *)
(***************************************************************************)

\* _phase_exponent without the factors (1 + 2 * z2 + 2 * x1) and (1 + 2 * z1 + 2 * x2)
_phase_exponentMutA(x1, z1, x2, z2) ==
    (x2 * z1 - x1 * z2 + 8) % 4

\* _phase_exponent; 2 is the value for which the source raises.
PhaseExponentNoMod(x1, z1, x2, z2) ==
    x2 * z1 * (1 + 2 * z2 + 2 * x1) - x1 * z2 * (1 + 2 * z1 + 2 * x2)

_phase_exponent(x1, z1, x2, z2) ==
    (PhaseExponentNoMod(x1, z1, x2, z2) + 8) % 4

\* A Pauli value: x bits, z bits and a phase.
PauliI(n) == [x |-> [q \in 0..(n - 1) |-> 0], z |-> [q \in 0..(n - 1) |-> 0], phase |-> 0]

RowPauli(c, row) == [x |-> c.x[row], z |-> c.z[row], phase |-> 0]

\* _rowsum without the phase of the accumulator in newr
_rowsumMutA(accum_pauli, accum_phase, row_pauli, row_phase) ==
    LET n    == Cardinality(DOMAIN row_pauli.x)
        g    == [q \in 0..(n - 1) |->
                    _phase_exponent(row_pauli.x[q], row_pauli.z[q],
                                    accum_pauli.x[q], accum_pauli.z[q])]
        newr == (2 * row_phase + SumTo(g, n)) % 4
        bad  == (\E q \in 0..(n - 1) : g[q] = 2) \/ (newr # 0 /\ newr # 2)
    IN  IF bad
        THEN [pauli |-> accum_pauli, phase |-> accum_phase, err |-> TRUE]
        ELSE [pauli |-> [x |-> [q \in 0..(n - 1) |-> Xor(accum_pauli.x[q], row_pauli.x[q])],
                         z |-> [q \in 0..(n - 1) |-> Xor(accum_pauli.z[q], row_pauli.z[q])],
                         phase |-> accum_pauli.phase],
              phase |-> IF newr = 2 THEN 1 ELSE 0,
              err |-> FALSE]

\* _rowsum: [pauli, phase, err]; err is the QiskitError of lines 665 and 680.
_rowsum(accum_pauli, accum_phase, row_pauli, row_phase) ==
    LET n    == Cardinality(DOMAIN row_pauli.x)
        g    == [q \in 0..(n - 1) |->
                    _phase_exponent(row_pauli.x[q], row_pauli.z[q],
                                    accum_pauli.x[q], accum_pauli.z[q])]
        newr == (2 * row_phase + 2 * accum_phase + SumTo(g, n)) % 4
        bad  == (\E q \in 0..(n - 1) : g[q] = 2) \/ (newr # 0 /\ newr # 2)
    IN  IF bad
        THEN [pauli |-> accum_pauli, phase |-> accum_phase, err |-> TRUE]
        ELSE [pauli |-> [x |-> [q \in 0..(n - 1) |-> Xor(accum_pauli.x[q], row_pauli.x[q])],
                         z |-> [q \in 0..(n - 1) |-> Xor(accum_pauli.z[q], row_pauli.z[q])],
                         phase |-> accum_pauli.phase],
              phase |-> IF newr = 2 THEN 1 ELSE 0,
              err |-> FALSE]

\* _rowsum_nondeterministic: row `accum` of the tableau becomes row * accum.
_rowsum_nondeterministic(c, accum, row) ==
    LET Assign(r) ==
            [clifford |-> [x     |-> [c.x EXCEPT ![accum] = r.pauli.x],
                           z     |-> [c.z EXCEPT ![accum] = r.pauli.z],
                           phase |-> [c.phase EXCEPT ![accum] = r.phase]],
             err |-> r.err]
    IN  Assign(_rowsum(RowPauli(c, accum), c.phase[accum], RowPauli(c, row), c.phase[row]))

\* _rowsum_deterministic taking the row without its phase bit
_rowsum_deterministicMutA(c, aux_pauli, row) ==
    LET Assign(r) == [pauli |-> [r.pauli EXCEPT !.phase = r.phase], err |-> r.err]
    IN  Assign(_rowsum(aux_pauli, aux_pauli.phase, RowPauli(c, row), 0))

\* _rowsum_deterministic: the auxiliary Pauli becomes row * aux_pauli.
_rowsum_deterministic(c, aux_pauli, row) ==
    LET Assign(r) == [pauli |-> [r.pauli EXCEPT !.phase = r.phase], err |-> r.err]
    IN  Assign(_rowsum(aux_pauli, aux_pauli.phase, RowPauli(c, row), c.phase[row]))

(***************************************************************************)
(* Single-qubit measurement.                                               *)
(***************************************************************************)

\* _is_qubit_deterministic: no stabilizer row has its x bit set at the qubit.
_is_qubit_deterministic(c, n, qubit) ==
    ~ \E p \in 0..(n - 1) : c.x[p + n][qubit] = 1

RECURSIVE DeterministicLoop(_, _, _, _, _)
\* lines 631-633: for i in range(num_qubits), from row i on.
DeterministicLoop(c, n, qubit, i, acc) ==
    IF i = n \/ acc.err THEN acc
    ELSE IF c.x[i][qubit] = 1
         THEN DeterministicLoop(c, n, qubit, i + 1,
                                _rowsum_deterministic(c, acc.pauli, i + n))
         ELSE DeterministicLoop(c, n, qubit, i + 1, acc)

\* lines 646: the rows the pivot is added to.
EliminatedMutA(c, n, qubit, i, p_qubit) ==
    c.x[i][qubit] = 1 /\ i # p_qubit

Eliminated(c, n, qubit, i, p_qubit) ==
    c.x[i][qubit] = 1 /\ i # p_qubit /\ i # (p_qubit - n)

RECURSIVE NondeterministicLoopMutA(_, _, _, _, _)
\* the elimination loop over the stabilizer rows only
NondeterministicLoopMutA(acc, n, qubit, i, p_qubit) ==
    IF i = 2 * n \/ acc.err THEN acc
    ELSE IF i >= n /\ Eliminated(acc.clifford, n, qubit, i, p_qubit)
         THEN NondeterministicLoopMutA(_rowsum_nondeterministic(acc.clifford, i, p_qubit),
                                       n, qubit, i + 1, p_qubit)
         ELSE NondeterministicLoopMutA(acc, n, qubit, i + 1, p_qubit)

RECURSIVE NondeterministicLoop(_, _, _, _, _)
\* lines 644-647: for i in range(2 * num_qubits), from row i on.
NondeterministicLoop(acc, n, qubit, i, p_qubit) ==
    IF i = 2 * n \/ acc.err THEN acc
    ELSE IF Eliminated(acc.clifford, n, qubit, i, p_qubit)
         THEN NondeterministicLoop(_rowsum_nondeterministic(acc.clifford, i, p_qubit),
                                   n, qubit, i + 1, p_qubit)
         ELSE NondeterministicLoop(acc, n, qubit, i + 1, p_qubit)

\* line 640: np.min(np.nonzero(stab_x[:, qubit])) + num_qubits.
PivotMutA(c, n, qubit) ==
    n + CHOOSE p \in 0..(n - 1) :
            /\ c.x[p + n][qubit] = 1
            /\ \A r \in 0..(n - 1) : c.x[r + n][qubit] = 1 => r <= p

Pivot(c, n, qubit) ==
    n + CHOOSE p \in 0..(n - 1) :
            /\ c.x[p + n][qubit] = 1
            /\ \A r \in 0..(n - 1) : c.x[r + n][qubit] = 1 => p <= r

\* lines 649-653: the pivot moves to its destabilizer slot and becomes +-Z_qubit.
SetPivotMutA(c, n, qubit, p_qubit, outcome) ==
    [x     |-> [c.x EXCEPT ![p_qubit] = [q \in 0..(n - 1) |-> 0]],
     z     |-> [c.z EXCEPT ![p_qubit] = [q \in 0..(n - 1) |-> IF q = qubit THEN 1 ELSE 0]],
     phase |-> [c.phase EXCEPT ![p_qubit] = outcome]]

SetPivot(c, n, qubit, p_qubit, outcome) ==
    [x     |-> [c.x EXCEPT ![p_qubit - n] = c.x[p_qubit],
                           ![p_qubit] = [q \in 0..(n - 1) |-> 0]],
     z     |-> [c.z EXCEPT ![p_qubit - n] = c.z[p_qubit],
                           ![p_qubit] = [q \in 0..(n - 1) |-> IF q = qubit THEN 1 ELSE 0]],
     phase |-> [c.phase EXCEPT ![p_qubit - n] = c.phase[p_qubit],
                               ![p_qubit] = outcome]]

\* _measure_and_update storing the deterministic outcome in the phase of the
\* destabilizer row of the qubit
_measure_and_updateMutA(c, n, qubit, randbit) ==
    IF _is_qubit_deterministic(c, n, qubit)
    THEN LET Return(a) ==
                 [clifford |-> [c EXCEPT !.phase = [r \in DOMAIN c.phase |->
                                                      IF r = qubit THEN a.pauli.phase
                                                      ELSE c.phase[r]]],
                  outcome |-> a.pauli.phase, err |-> a.err, det |-> TRUE]
         IN  Return(DeterministicLoop(c, n, qubit, 0, [pauli |-> PauliI(n), err |-> FALSE]))
    ELSE LET p_qubit == Pivot(c, n, qubit)
             Return(a) ==
                 IF a.err
                 THEN [clifford |-> a.clifford, outcome |-> randbit, err |-> TRUE, det |-> FALSE]
                 ELSE [clifford |-> SetPivot(a.clifford, n, qubit, p_qubit, randbit),
                       outcome |-> randbit, err |-> FALSE, det |-> FALSE]
         IN  Return(NondeterministicLoop([clifford |-> c, err |-> FALSE], n, qubit, 0, p_qubit))

\* _measure_and_update: [clifford, outcome, err, det]; clifford is the tableau
\* the call leaves behind (a raise leaves the rows already eliminated).
_measure_and_update(c, n, qubit, randbit) ==
    IF _is_qubit_deterministic(c, n, qubit)
    THEN LET Return(a) ==
                 [clifford |-> c, outcome |-> a.pauli.phase, err |-> a.err, det |-> TRUE]
         IN  Return(DeterministicLoop(c, n, qubit, 0, [pauli |-> PauliI(n), err |-> FALSE]))
    ELSE LET p_qubit == Pivot(c, n, qubit)
             Return(a) ==
                 IF a.err
                 THEN [clifford |-> a.clifford, outcome |-> randbit, err |-> TRUE, det |-> FALSE]
                 ELSE [clifford |-> SetPivot(a.clifford, n, qubit, p_qubit, randbit),
                       outcome |-> randbit, err |-> FALSE, det |-> FALSE]
         IN  Return(NondeterministicLoop([clifford |-> c, err |-> FALSE], n, qubit, 0, p_qubit))

(***************************************************************************)
(* Outcome strings, probabilities and the result dictionary.               *)
(*                                                                         *)
(* A string is a sequence of the characters "0", "1" and "X"; position i   *)
(* of the source (0-based) is element i + 1 here.  A probability is kept   *)
(* exactly, as a multiple of 1 / ProbOne: every value the search produces  *)
(* is 0 or 1.0 halved at most once per requested qubit, so the float       *)
(* arithmetic of the source is exact and so is this.                       *)
(***************************************************************************)

RECURSIVE Pow2(_)
Pow2(k) == IF k = 0 THEN 1 ELSE 2 * Pow2(k - 1)

\* 1.0
ProbOne == Pow2(MaxQubits + CircuitQubits)

\* Half without the factor 0.5
HalfMutA(p) == p

\* 0.5 * p
Half(p) == p \div 2

\* str(b) for a bit b.
Str(b) == IF b = 1 THEN "1" ELSE "0"

\* int(ch) for a character "0" or "1".
IntOf(ch) == IF ch = "1" THEN 1 ELSE 0

\* target is None
NoTarget == <<"None">>

\* qargs is None
NoQargs == <<-1>>

\* ["X"] * k
AllX(k) == SubSeq([i \in 1..k |-> "X"], 1, k)

\* probs[key] = value
DictPut(d, key, value) ==
    [k \in (DOMAIN d) \cup {key} |-> IF k = key THEN value ELSE d[k]]

EmptyDict == [k \in {} |-> 0]

\* the qubit of position i taken from the front of the list
QubitOfMutA(qubits, i) == qubits[i + 1]

\* line 837: qubits[len(qubits) - i - 1]
QubitOf(qubits, i) == qubits[Len(qubits) - i]

(***************************************************************************)
(* ProbabilityCache (qiskit/quantum_info/states/probabilitycache.py).      *)
(* Entries are keyed by the outcome string; only partial keys (an X and a  *)
(* resolved bit) are stored.                                               *)
(***************************************************************************)

NoCache == [on |-> FALSE, outcome |-> EmptyDict, state |-> EmptyDict, reads |-> 0]

\* ProbabilityCache()
NewCache == [on |-> TRUE, outcome |-> EmptyDict, state |-> EmptyDict, reads |-> 0]

\* the cache after k calls of its query methods; reads counts them
Consulted(cache, k) == [cache EXCEPT !.reads = cache.reads + k]

IsPartialKey(key) ==
    /\ \E i \in DOMAIN key : key[i] = "X"
    /\ \E i \in DOMAIN key : key[i] # "X"

is_state_in_stabilizer_cache(cache, outcome) == outcome \in DOMAIN cache.state

retrieve_state(cache, outcome) == cache.state[outcome]

insert_state(cache, outcome, ret) ==
    IF IsPartialKey(outcome)
    THEN [cache EXCEPT !.state = DictPut(cache.state, outcome, ret)]
    ELSE cache

insert_outcome(cache, outcome, outcome_prob) ==
    IF IsPartialKey(outcome)
    THEN [cache EXCEPT !.outcome = DictPut(cache.outcome, outcome, outcome_prob)]
    ELSE cache

retrieve_outcome(cache, key) == cache.outcome[key]

\* "X" * level + target[level:]
BranchKey(target, level) ==
    SubSeq([i \in 1..Len(target) |-> IF i <= level THEN "X" ELSE target[i]], 1, Len(target))

\* the cached key with the most resolved positions, or NoTarget for None.
retreive_key_for_most_completed_branch_to_target(cache, target) ==
    LET levels == {l \in 1..(Len(target) - 1) : BranchKey(target, l) \in DOMAIN cache.outcome}
    IN  IF levels = {} THEN NoTarget
        ELSE BranchKey(target, CHOOSE l \in levels : \A m \in levels : l <= m)

(***************************************************************************)
(* The probability search.                                                 *)
(***************************************************************************)

\* _branches_to_measure exploring only branch 0 when there is no target
_branches_to_measureMutA(qubit_for_branching, target) ==
    IF target = NoTarget THEN <<0>>
    ELSE <<IntOf(target[qubit_for_branching + 1])>>

\* _branches_to_measure exploring the branch opposite to the target's bit
_branches_to_measureMutB(qubit_for_branching, target) ==
    IF target = NoTarget THEN <<0, 1>>
    ELSE <<1 - IntOf(target[qubit_for_branching + 1])>>

\* _branches_to_measure: range(0, 2), or range(loc, loc + 1) for a target.
_branches_to_measure(qubit_for_branching, target) ==
    IF target = NoTarget THEN <<0, 1>>
    ELSE <<IntOf(target[qubit_for_branching + 1])>>

\* retrieve_deterministic_probability writing the measured bit on a mismatch
retrieve_deterministic_probabilityMutA(index, qubit, outcome, ret, n, outcome_prob, target) ==
    LET Return(m) ==
            [outcome |-> [outcome EXCEPT ![index + 1] = Str(m.outcome)],
             prob |-> IF target # NoTarget /\ IntOf(target[index + 1]) # m.outcome
                      THEN 0 ELSE outcome_prob,
             err |-> m.err]
    IN  Return(_measure_and_update(ret, n, qubit, 0))

\* retrieve_deterministic_probability keeping the probability on a mismatch
retrieve_deterministic_probabilityMutB(index, qubit, outcome, ret, n, outcome_prob, target) ==
    LET Return(m) ==
            [outcome |-> [outcome EXCEPT ![index + 1] =
                             IF target # NoTarget THEN target[index + 1] ELSE Str(m.outcome)],
             prob |-> outcome_prob,
             err |-> m.err]
    IN  Return(_measure_and_update(ret, n, qubit, 0))

\* retrieve_deterministic_probability: [outcome, prob, err].
retrieve_deterministic_probability(index, qubit, outcome, ret, n, outcome_prob, target) ==
    LET Return(m, single_qubit_outcome) ==
            IF target # NoTarget
            THEN IF IntOf(target[index + 1]) = single_qubit_outcome
                 THEN [outcome |-> [outcome EXCEPT ![index + 1] = Str(single_qubit_outcome)],
                       prob |-> outcome_prob, err |-> m.err]
                 ELSE [outcome |-> [outcome EXCEPT ![index + 1] =
                                       Str(IntOf(target[index + 1]))],
                       prob |-> 0, err |-> m.err]
            ELSE [outcome |-> [outcome EXCEPT ![index + 1] =
                                  IF single_qubit_outcome = 1 THEN "1" ELSE "0"],
                  prob |-> outcome_prob, err |-> m.err]
        Measured(m) == Return(m, m.outcome)
    IN  Measured(_measure_and_update(ret, n, qubit, 0))

RECURSIVE ResolveLoopMutA(_, _, _, _, _, _)
\* the loop of lines 834-844 keeping the first position that is not deterministic
ResolveLoopMutA(ret, n, qubits, a, i, target) ==
    IF i = Len(qubits) \/ a.err THEN a
    ELSE IF a.outcome[i + 1] # "X" THEN ResolveLoopMutA(ret, n, qubits, a, i + 1, target)
    ELSE LET qubit == QubitOf(qubits, i)
         IN  IF _is_qubit_deterministic(ret, n, qubit)
             THEN LET Continue(d) ==
                          ResolveLoopMutA(ret, n, qubits,
                                          [outcome |-> d.outcome, prob |-> d.prob,
                                           branching |-> a.branching, err |-> d.err],
                                          i + 1, target)
                  IN  Continue(retrieve_deterministic_probability(
                                   i, qubit, a.outcome, ret, n, a.prob, target))
             ELSE ResolveLoopMutA(ret, n, qubits,
                                  [a EXCEPT !.branching = IF a.branching = -1 THEN i
                                                          ELSE a.branching],
                                  i + 1, target)

RECURSIVE ResolveLoop(_, _, _, _, _, _)
\* lines 834-844: for i in range(len(qubits)), from position i on;
\* a = [outcome, prob, branching, err].
ResolveLoop(ret, n, qubits, a, i, target) ==
    IF i = Len(qubits) \/ a.err THEN a
    ELSE IF a.outcome[i + 1] # "X" THEN ResolveLoop(ret, n, qubits, a, i + 1, target)
    ELSE LET qubit == QubitOf(qubits, i)
         IN  IF _is_qubit_deterministic(ret, n, qubit)
             THEN LET Continue(d) ==
                          ResolveLoop(ret, n, qubits,
                                      [outcome |-> d.outcome, prob |-> d.prob,
                                       branching |-> a.branching, err |-> d.err],
                                      i + 1, target)
                  IN  Continue(retrieve_deterministic_probability(
                                   i, qubit, a.outcome, ret, n, a.prob, target))
             ELSE ResolveLoop(ret, n, qubits, [a EXCEPT !.branching = i], i + 1, target)

\* new_outcome = outcome.copy() without the write of the branch bit
NewOutcomeMutA(outcome, qubit_for_branching, single_qubit_outcome) == outcome

\* lines 859-863: new_outcome, the outcome with the branch bit written.
NewOutcome(outcome, qubit_for_branching, single_qubit_outcome) ==
    [outcome EXCEPT ![qubit_for_branching + 1] =
        IF single_qubit_outcome = 1 THEN "1" ELSE "0"]

RECURSIVE _get_probabilities(_, _, _, _, _, _, _)
RECURSIVE BranchLoop(_, _, _, _, _, _, _, _, _, _)

\* lines 856-871: the branches from index b of `branches` on;
\* acc = [probs, cache, err, nodes, depth]: nodes lists the calls of
\* _get_probabilities in the order they are entered and depth is the number
\* of calls of it on the stack.
BranchLoop(ret, n, qubits, outcome, outcome_prob, qubit_for_branching, branches, b, acc, target) ==
    IF b > Len(branches) \/ acc.err THEN acc
    ELSE LET single_qubit_outcome == branches[b]
             new_outcome == NewOutcome(outcome, qubit_for_branching, single_qubit_outcome)
             Returned(r) == [r EXCEPT !.depth = acc.depth]
             Recurse(m) ==
                 IF m.err THEN [acc EXCEPT !.err = TRUE]
                 ELSE Returned(_get_probabilities(m.clifford, n, qubits, new_outcome,
                                                  Half(outcome_prob),
                                                  [acc EXCEPT !.depth = acc.depth + 1],
                                                  target))
         IN  BranchLoop(ret, n, qubits, outcome, outcome_prob, qubit_for_branching,
                        branches, b + 1,
                        Recurse(_measure_and_update(ret, n,
                                                    QubitOf(qubits, qubit_for_branching),
                                                    single_qubit_outcome)),
                        target)

\* _get_probabilities on the state whose tableau is self;
\* acc = [probs, cache, err, nodes, depth].  The call adds to nodes its own
\* record: the outcome and probability it is entered with, the tableau ret it
\* works on and whether ret came from the cache, the outcome and probability
\* after the loop of lines 834-844, qubit_for_branching and its depth.
_get_probabilities(self, n, qubits, outcome, outcome_prob, acc, target) ==
    LET use_caching == target # NoTarget /\ acc.cache.on
        hit    == use_caching /\ is_state_in_stabilizer_cache(acc.cache, outcome)
        ret    == IF hit THEN retrieve_state(acc.cache, outcome) ELSE self
        cache1 == IF ~use_caching THEN acc.cache
                  ELSE IF hit THEN Consulted(acc.cache, 2)
                  ELSE Consulted(insert_state(acc.cache, outcome, ret), 1)
        Node(a) ==
            [entry |-> outcome, entry_prob |-> outcome_prob, ret |-> ret, hit |-> hit,
             outcome |-> a.outcome, prob |-> a.prob, branching |-> a.branching,
             depth |-> acc.depth]
        Branch(a, cache2) ==
            IF a.err THEN [acc EXCEPT !.err = TRUE]
            ELSE IF a.branching = -1
            THEN [probs |-> DictPut(acc.probs, a.outcome, a.prob),
                  cache |-> cache2, err |-> FALSE,
                  nodes |-> Append(acc.nodes, Node(a)), depth |-> acc.depth]
            ELSE BranchLoop(ret, n, qubits, a.outcome, a.prob, a.branching,
                            _branches_to_measure(a.branching, target), 1,
                            [probs |-> acc.probs, cache |-> cache2, err |-> FALSE,
                             nodes |-> Append(acc.nodes, Node(a)), depth |-> acc.depth],
                            target)
        Resolved(a) ==
            Branch(a, IF use_caching THEN insert_outcome(cache1, a.outcome, a.prob)
                      ELSE cache1)
    IN  Resolved(IF \E i \in DOMAIN outcome : outcome[i] = "X"
                 THEN ResolveLoop(ret, n, qubits,
                                  [outcome |-> outcome, prob |-> outcome_prob,
                                   branching |-> -1, err |-> FALSE], 0, target)
                 ELSE [outcome |-> outcome, prob |-> outcome_prob,
                       branching |-> -1, err |-> FALSE])

\* lines 425-428 (and 567-568): the qubits of a call.
QubitsOf(qargs, n) == IF qargs = NoQargs THEN [i \in 1..n |-> i - 1] ELSE qargs

RECURSIVE TargetLoop(_, _, _, _, _, _, _)
\* lines 447-465: the targets from index t of `target` on.
TargetLoop(self, n, qubits, target, t, acc, use_caching) ==
    IF t > Len(target) \/ acc.err THEN acc
    ELSE LET item_target == target[t]
             key == IF use_caching
                    THEN retreive_key_for_most_completed_branch_to_target(acc.cache, item_target)
                    ELSE NoTarget
             outcome_prob == IF key # NoTarget THEN retrieve_outcome(acc.cache, key) ELSE ProbOne
             outcome == IF key # NoTarget THEN key ELSE AllX(Len(qubits))
             looked == IF ~use_caching THEN acc
                       ELSE [acc EXCEPT !.cache =
                                Consulted(acc.cache, IF key # NoTarget THEN 2 ELSE 1)]
         IN  TargetLoop(self, n, qubits, target, t + 1,
                        _get_probabilities(self, n, qubits, outcome, outcome_prob, looked,
                                           item_target),
                        use_caching)

\* The forms of the target argument: None, one string, a list of strings.
TargetNone == [form |-> "none"]

TargetStr(t) == [form |-> "str", s |-> t]

TargetList(ts) == [form |-> "list", l |-> ts]

\* line 443 without the condition on the number of targets
UseCachingMutA(target, use_caching) == use_caching

\* line 443: target is not None and len(target) > 1 and use_caching, target
\* being the list of lines 434-437.
UseCaching(target, use_caching) == Len(target) > 1 /\ use_caching

\* probabilities_dict_from_bitstrings with decimals = None.
\* Returns [probs, err, cached, reads, entries, nodes]: cached tells whether a
\* cache was created, reads counts the calls of its query methods, entries the
\* keys it holds at the end, and nodes lists the calls of _get_probabilities.
probabilities_dict_from_bitstrings(self, n, qargs, target, use_caching) ==
    LET qubits == QubitsOf(qargs, n)
        tlist  == IF target.form = "none" THEN <<NoTarget>>
                  ELSE IF target.form = "str" THEN <<target.s>>
                  ELSE target.l
        caching == UseCaching(tlist, use_caching)
        Return(r) ==
            [probs |-> r.probs, err |-> r.err, cached |-> r.cache.on,
             reads |-> r.cache.reads,
             entries |-> Cardinality(DOMAIN r.cache.outcome)
                           + Cardinality(DOMAIN r.cache.state),
             nodes |-> r.nodes]
    IN  Return(TargetLoop(self, n, qubits, tlist, 1,
                          [probs |-> EmptyDict,
                           cache |-> IF caching THEN NewCache ELSE NoCache,
                           err |-> FALSE, nodes |-> <<>>, depth |-> 0],
                          caching))

\* probabilities_dict with decimals = None.
probabilities_dict(self, n, qargs) ==
    probabilities_dict_from_bitstrings(self, n, qargs, TargetNone, FALSE)

(***************************************************************************)
(* The objects of a call.  A state is an object of a heap (object number   *)
(* -> tableau), so that a write through one reference is seen through      *)
(* every alias of it.  The probability search above passes tableaux by     *)
(* value; the operators below follow the objects it creates and writes.    *)
(***************************************************************************)

\* self.copy() returning self: the caller's writes land in the receiver
copyMutA(heap, obj) == [heap |-> heap, ref |-> obj]

\* self.copy(): a new object holding a deep copy of obj
copy(heap, obj) ==
    LET new == Cardinality(DOMAIN heap)
    IN  [heap |-> heap @@ (new :> heap[obj]), ref |-> new]

\* The heap of a call: the receiver is object 0.
Receiver == 0

HeapOf(c) == Receiver :> c

RECURSIVE BranchWrites(_, _, _, _, _, _)
\* lines 865-868 on the heap: stab_cpy = ret.copy() and the measurement that
\* writes stab_cpy, for the branches from index b of `branches` on.  The call
\* of line 869 has stab_cpy as its receiver.
BranchWrites(heap, ret, n, qubit, branches, b) ==
    IF b > Len(branches) THEN heap
    ELSE LET Write(c) ==
                 [c.heap EXCEPT ![c.ref] =
                     _measure_and_update(c.heap[c.ref], n, qubit, branches[b]).clifford]
         IN  BranchWrites(Write(copy(heap, ret)), ret, n, qubit, branches, b + 1)

\* lines 825-868 on the heap, for a call on object self whose outcome is not
\* in the cache: ret = self.copy(), then the branches written on copies of ret.
GetProbabilitiesWrites(heap, self, n, qubits, outcome, target) ==
    LET Branches(c, a) ==
            IF a.err \/ a.branching = -1 THEN c.heap
            ELSE BranchWrites(c.heap, c.ref, n, QubitOf(qubits, a.branching),
                              _branches_to_measure(a.branching, target), 1)
        Resolved(c) ==
            Branches(c, ResolveLoop(c.heap[c.ref], n, qubits,
                                    [outcome |-> outcome, prob |-> ProbOne,
                                     branching |-> -1, err |-> FALSE], 0, target))
    IN  Resolved(copy(heap, self))

RECURSIVE TargetWrites(_, _, _, _, _, _, _)
\* lines 447-465 on the heap, the targets from index t of `target` on: the call
\* of line 465 starts from the cached key if there is one, and works on the
\* cached state (an object of an earlier call) if the cache holds one for it.
TargetWrites(heap, self, n, qubits, target, t, use_caching) ==
    IF t > Len(target) THEN heap
    ELSE LET Call(key, cache) ==
                 IF key # NoTarget /\ is_state_in_stabilizer_cache(cache, key) THEN heap
                 ELSE GetProbabilitiesWrites(heap, self, n, qubits,
                                             IF key # NoTarget THEN key
                                             ELSE AllX(Len(qubits)),
                                             target[t])
             Start(cache) ==
                 Call(IF use_caching
                      THEN retreive_key_for_most_completed_branch_to_target(cache, target[t])
                      ELSE NoTarget,
                      cache)
         IN  TargetWrites(Start(TargetLoop(heap[self], n, qubits, SubSeq(target, 1, t - 1), 1,
                                           [probs |-> EmptyDict,
                                            cache |-> IF use_caching THEN NewCache
                                                      ELSE NoCache,
                                            err |-> FALSE, nodes |-> <<>>, depth |-> 0],
                                           use_caching).cache),
                          self, n, qubits, target, t + 1, use_caching)

\* The heap probabilities_dict_from_bitstrings leaves, called on object self.
ProbabilitiesWrites(heap, self, n, qargs, target, use_caching) ==
    LET Run(tlist) ==
            TargetWrites(heap, self, n, QubitsOf(qargs, n), tlist, 1,
                         UseCaching(tlist, use_caching))
    IN  Run(IF target.form = "none" THEN <<NoTarget>>
            ELSE IF target.form = "str" THEN <<target.s>>
            ELSE target.l)

(***************************************************************************)
(* Expectation value of a Pauli operator.                                  *)
(*                                                                         *)
(* An operator is [x, z, phase]: x and z bits per position (0-based) and   *)
(* the group phase k of (-i)^k.  A complex number is <<re, im>>.           *)
(***************************************************************************)

CMul(a, b) == <<a[1] * b[1] - a[2] * b[2], a[1] * b[2] + a[2] * b[1]>>

CNeg(a) == <<0 - a[1], 0 - a[2]>>

RECURSIVE CPow(_, _)
\* a ** k
CPow(a, k) == IF k = 0 THEN <<1, 0>> ELSE CMul(a, CPow(a, k - 1))

RECURSIVE EmbedLoop(_, _, _, _)
\* lines 287-290: for pos, qubit in enumerate(qubits), from position pos on;
\* a = [x, z, phase].
EmbedLoop(oper, qubits, pos, a) ==
    IF pos = Len(qubits) THEN a
    ELSE LET qubit == qubits[pos + 1]
             x == [a.x EXCEPT ![qubit] = oper.x[pos]]
             z == [a.z EXCEPT ![qubit] = oper.z[pos]]
         IN  EmbedLoop(oper, qubits, pos + 1,
                       [x |-> x, z |-> z, phase |-> a.phase + x[qubit] * z[qubit]])

\* lines 295-298: the number of anticommuting components is odd.
OddAnti(pauli, n, rx, rz) ==
    (SumTo([q \in 0..(n - 1) |-> pauli.z[q] * rx[q]], n)
       + SumTo([q \in 0..(n - 1) |-> pauli.x[q] * rz[q]], n)) % 2 = 1

\* lines 294-299: some stabilizer row anticommutes with the operator.
ZeroCheckMutA(c, n, pauli) ==
    \E p \in 0..(n - 1) : OddAnti(pauli, n, c.x[p], c.z[p])

ZeroCheck(c, n, pauli) ==
    \E p \in 0..(n - 1) : OddAnti(pauli, n, c.x[p + n], c.z[p + n])

\* lines 314-316: the phase a stabilizer row adds when multiplied in.
StabPhaseMutA(c, n, p, pauli_z) ==
    2 * c.phase[p + n]
      + SumTo([q \in 0..(n - 1) |-> c.z[p + n][q] * c.x[p + n][q]], n)

StabPhaseMutB(c, n, p, pauli_z) ==
    SumTo([q \in 0..(n - 1) |-> c.z[p + n][q] * c.x[p + n][q]], n)
      + 2 * SumTo([q \in 0..(n - 1) |-> pauli_z[q] * c.x[p + n][q]], n)

StabPhase(c, n, p, pauli_z) ==
    2 * c.phase[p + n]
      + SumTo([q \in 0..(n - 1) |-> c.z[p + n][q] * c.x[p + n][q]], n)
      + 2 * SumTo([q \in 0..(n - 1) |-> pauli_z[q] * c.x[p + n][q]], n)

RECURSIVE MultiplyLoop(_, _, _, _, _)
\* lines 305-317: for p in range(num_qubits), from p on; a = [phase, pauli_z].
MultiplyLoop(c, n, pauli, p, a) ==
    IF p = n THEN a
    ELSE IF ~OddAnti(pauli, n, c.x[p], c.z[p])
         THEN MultiplyLoop(c, n, pauli, p + 1, a)
         ELSE MultiplyLoop(c, n, pauli, p + 1,
                  [phase   |-> a.phase + StabPhase(c, n, p, a.pauli_z),
                   pauli_z |-> [q \in 0..(n - 1) |-> Xor(a.pauli_z[q], c.z[p + n][q])]])

\* expectation_value(oper, qargs) for a Pauli operator oper.
expectation_value(c, n, oper, qargs) ==
    LET qubits == QubitsOf(qargs, n)
        pauli_phase == IF oper.phase # 0 THEN CPow(<<0, -1>>, oper.phase) ELSE <<1, 0>>
        pauli == EmbedLoop(oper, qubits, 0, PauliI(n))
    IN  IF ZeroCheck(c, n, pauli) THEN <<0, 0>>
        ELSE LET m == MultiplyLoop(c, n, pauli, 0, [phase |-> pauli.phase, pauli_z |-> pauli.z])
             IN  IF m.phase % 4 # 0 THEN CNeg(pauli_phase) ELSE pauli_phase

\* the value of a call that raised
NoValue == <<"raised">>

\* num_qubits of a Pauli operator
NumQubitsOf(oper) == Cardinality(DOMAIN oper.x)

\* expectation_value without the check of lines 273-274: the first attribute
\* read of a non-Pauli argument (oper.phase, line 285) raises
expectation_value_callMutA(c, n, oper, qargs) ==
    IF oper.type # "Pauli" THEN [raised |-> "AttributeError", value |-> NoValue]
    ELSE IF Len(QubitsOf(qargs, n)) > NumQubitsOf(oper)
    THEN [raised |-> "IndexError", value |-> NoValue]
    ELSE [raised |-> "none", value |-> expectation_value(c, n, oper, qargs)]

\* expectation_value(oper, qargs) for any argument: [raised, value].
\* Lines 273-274 reject a non-Pauli argument; the loop of lines 287-290 reads
\* oper.x[pos] for every position of the qubit list, so an operator with
\* fewer components raises IndexError and the components past the list are
\* never read.
expectation_value_call(c, n, oper, qargs) ==
    IF oper.type # "Pauli" THEN [raised |-> "QiskitError", value |-> NoValue]
    ELSE IF Len(QubitsOf(qargs, n)) > NumQubitsOf(oper)
    THEN [raised |-> "IndexError", value |-> NoValue]
    ELSE [raised |-> "none", value |-> expectation_value(c, n, oper, qargs)]

(***************************************************************************)
(* The state machine.                                                      *)
(***************************************************************************)

NoRes == [kind |-> "none"]

Init ==
    /\ num_qubits \in 1..MaxQubits
    /\ clifford = Identity(num_qubits)
    /\ ngates = 0
    /\ nmeas = 0
    /\ op = "init"
    /\ res = NoRes

Idle == op \in {"init", "evolve", "_measure_and_update"}

\* evolve by one gate (line 257: clifford.compose).
EvolveH ==
    /\ Idle /\ ngates < MaxGates
    /\ \E q \in 0..(num_qubits - 1) : clifford' = AppendH(clifford, q)
    /\ ngates' = ngates + 1
    /\ op' = "evolve" /\ res' = NoRes
    /\ UNCHANGED <<num_qubits, nmeas>>

EvolveS ==
    /\ Idle /\ ngates < MaxGates
    /\ \E q \in 0..(num_qubits - 1) : clifford' = AppendS(clifford, q)
    /\ ngates' = ngates + 1
    /\ op' = "evolve" /\ res' = NoRes
    /\ UNCHANGED <<num_qubits, nmeas>>

EvolveCX ==
    /\ Idle /\ ngates < MaxGates
    /\ \E q0, q1 \in 0..(num_qubits - 1) :
           q0 # q1 /\ clifford' = AppendCX(clifford, q0, q1)
    /\ ngates' = ngates + 1
    /\ op' = "evolve" /\ res' = NoRes
    /\ UNCHANGED <<num_qubits, nmeas>>

EvolveX ==
    /\ Idle /\ ngates < MaxGates
    /\ \E q \in 0..(num_qubits - 1) : clifford' = AppendX(clifford, q)
    /\ ngates' = ngates + 1
    /\ op' = "evolve" /\ res' = NoRes
    /\ UNCHANGED <<num_qubits, nmeas>>

\* What _measure_and_update leaves: the updated tableau, and in res the
\* arguments, the returned outcome and the tableau before the call.
MeasureResult(qubit, randbit, m) ==
    /\ clifford' = m.clifford
    /\ res' = [kind |-> "outcome", qubit |-> qubit, randbit |-> randbit,
               outcome |-> m.outcome, err |-> m.err, det |-> m.det,
               before |-> clifford]

\* _measure_and_update on the state's own tableau.
MeasureAndUpdate ==
    /\ Idle /\ nmeas < MaxMeasures
    /\ \E qubit \in 0..(num_qubits - 1), randbit \in Bit :
           MeasureResult(qubit, randbit,
                         _measure_and_update(clifford, num_qubits, qubit, randbit))
    /\ nmeas' = nmeas + 1
    /\ op' = "_measure_and_update"
    /\ UNCHANGED <<num_qubits, ngates>>

\* The qargs of a call: None, or a list of distinct qubits.
QargsLists(n) ==
    {NoQargs} \cup
    {qs \in UNION {[1..k -> 0..(n - 1)] : k \in 1..n} :
        \A i, j \in DOMAIN qs : i # j => qs[i] # qs[j]}

\* The bitstrings of length k.
Bitstrings(k) == [1..k -> {"0", "1"}]

\* The lists of all 2^k bitstrings of length k (every order for k <= 1,
\* ascending and descending for longer strings).
AllBitstringLists(k) ==
    IF k <= 1
    THEN {l \in [1..Pow2(k) -> Bitstrings(k)] : \A i, j \in DOMAIN l : i # j => l[i] # l[j]}
    ELSE LET num(t) == SumTo([i \in 0..(k - 1) |-> IntOf(t[i + 1]) * Pow2(k - 1 - i)], k)
             asc == [i \in 1..Pow2(k) |-> CHOOSE t \in Bitstrings(k) : num(t) = i - 1]
         IN  {asc, [i \in 1..Pow2(k) |-> asc[Pow2(k) + 1 - i]]}

\* The target arguments of a call on k qubits.
TargetArgs(k) ==
    {TargetNone}
    \cup {TargetStr(t) : t \in Bitstrings(k)}
    \cup {TargetList(<<t>>) : t \in Bitstrings(k)}
    \cup {TargetList(<<t1, t2>>) : t1, t2 \in Bitstrings(k)}
    \cup {TargetList(l) : l \in AllBitstringLists(k)}

\* The inputs of the calls, for every qubit count of the model.
QargsOf == [n \in 1..MaxQubits |-> QargsLists(n)]

TargetArgsOf == [k \in 1..MaxQubits |-> TargetArgs(k)]

\* What a probabilities call leaves in res: its arguments and the returned map.
ProbsResult(qargs, target, use_caching, r) ==
    [kind |-> "probs", qargs |-> qargs, target |-> target, use_caching |-> use_caching,
     probs |-> r.probs, err |-> r.err, cached |-> r.cached, reads |-> r.reads,
     entries |-> r.entries, nodes |-> r.nodes]

\* probabilities_dict(qargs)
ProbabilitiesDict ==
    /\ Idle
    /\ \E qargs \in QargsOf[num_qubits] :
           /\ res' = ProbsResult(qargs, TargetNone, FALSE,
                                 probabilities_dict(clifford, num_qubits, qargs))
           /\ clifford' = ProbabilitiesWrites(HeapOf(clifford), Receiver, num_qubits,
                                              qargs, TargetNone, FALSE)[Receiver]
    /\ op' = "probabilities_dict"
    /\ UNCHANGED <<num_qubits, ngates, nmeas>>

\* probabilities_dict_from_bitstrings(qargs, None, target, use_caching)
ProbabilitiesDictFromBitstrings ==
    /\ Idle
    /\ \E qargs \in QargsOf[num_qubits], use_caching \in BOOLEAN :
         \E target \in TargetArgsOf[Len(QubitsOf(qargs, num_qubits))] :
           /\ res' = ProbsResult(qargs, target, use_caching,
                                 probabilities_dict_from_bitstrings(
                                     clifford, num_qubits, qargs, target, use_caching))
           /\ clifford' = ProbabilitiesWrites(HeapOf(clifford), Receiver, num_qubits,
                                              qargs, target, use_caching)[Receiver]
    /\ op' = "probabilities_dict_from_bitstrings"
    /\ UNCHANGED <<num_qubits, ngates, nmeas>>

\* The Pauli operators on m qubits, with every group phase.
Paulis(m) ==
    {[x |-> x, z |-> z, phase |-> k] :
        x \in [0..(m - 1) -> Bit], z \in [0..(m - 1) -> Bit], k \in 0..3}

PaulisOf == [m \in 1..MaxQubits |-> Paulis(m)]

\* What expectation_value leaves in res: its arguments and the returned value.
ExpvalResult(oper, qargs, value) ==
    [kind |-> "expval", oper |-> oper, qargs |-> qargs, value |-> value]

\* expectation_value(oper, qargs)
ExpectationValue ==
    /\ Idle
    /\ \E qargs \in QargsOf[num_qubits] :
         \E oper \in PaulisOf[Len(QubitsOf(qargs, num_qubits))] :
           res' = ExpvalResult(oper, qargs,
                               expectation_value(clifford, num_qubits, oper, qargs))
    /\ op' = "expectation_value"
    /\ UNCHANGED <<num_qubits, clifford, ngates, nmeas>>

\* The arguments a caller can pass as oper: a Pauli on any number of qubits,
\* or a value of another type.
NonPauliTypes == {"str", "Operator", "NoneType"}

OperArgs ==
    {[type |-> "Pauli", x |-> p.x, z |-> p.z, phase |-> p.phase] :
        p \in UNION {PaulisOf[m] : m \in 1..MaxQubits}}
    \cup {[type |-> t] : t \in NonPauliTypes}

\* What a call of expectation_value leaves in res: its arguments, the error
\* raised if any, the returned value and the tableau before the call.
ExpvalCallResult(oper, qargs, r) ==
    [kind |-> "expval_call", oper |-> oper, qargs |-> qargs, raised |-> r.raised,
     value |-> r.value, before |-> clifford]

\* expectation_value(oper, qargs) with any argument
ExpectationValueCall ==
    /\ Idle
    /\ \E qargs \in QargsOf[num_qubits], oper \in OperArgs :
           res' = ExpvalCallResult(oper, qargs,
                                   expectation_value_call(clifford, num_qubits, oper, qargs))
    /\ op' = "expectation_value"
    /\ UNCHANGED <<num_qubits, clifford, ngates, nmeas>>

\* The signed Pauli rows on n qubits: x bits, z bits and a phase bit.
SignedRows(n) ==
    {[x |-> x, z |-> z, phase |-> b] :
        x \in [0..(n - 1) -> Bit], z \in [0..(n - 1) -> Bit], b \in Bit}

SignedRowsOf == [n \in 1..MaxQubits |-> SignedRows(n)]

\* _phase_exponent(x1, z1, x2, z2) on bits; the value 2 raises (lines 665-666).
PhaseExponent ==
    /\ op = "init"
    /\ \E x1 \in Bit, z1 \in Bit, x2 \in Bit, z2 \in Bit :
           res' = [kind |-> "exponent", x1 |-> x1, z1 |-> z1, x2 |-> x2, z2 |-> z2,
                   value |-> _phase_exponent(x1, z1, x2, z2),
                   raised |-> _phase_exponent(x1, z1, x2, z2) = 2]
    /\ op' = "_phase_exponent"
    /\ UNCHANGED <<num_qubits, clifford, ngates, nmeas>>

\* _rowsum(accum_pauli, accum_phase, row_pauli, row_phase) on two signed rows
Rowsum ==
    /\ op = "init"
    /\ \E accum \in SignedRowsOf[num_qubits], row \in SignedRowsOf[num_qubits] :
           res' = [kind |-> "rowsum", accum |-> accum, row |-> row,
                   out |-> _rowsum([x |-> accum.x, z |-> accum.z, phase |-> 0], accum.phase,
                                   [x |-> row.x, z |-> row.z, phase |-> 0], row.phase)]
    /\ op' = "_rowsum"
    /\ UNCHANGED <<num_qubits, clifford, ngates, nmeas>>

(***************************************************************************)
(* States constructed from a layered circuit (StabilizerState(qc)): a      *)
(* Hadamard on each qubit of a set, then CX gates on a set of pairs        *)
(* control < target, in lexicographic order.                               *)
(***************************************************************************)

RECURSIVE LayerH(_, _, _, _)
LayerH(c, n, hs, q) ==
    IF q = n THEN c
    ELSE LayerH(IF q \in hs THEN AppendH(c, q) ELSE c, n, hs, q + 1)

RECURSIVE LayerCX(_, _, _, _)
\* pair number i is control i \div n, target i % n
LayerCX(c, n, cxs, i) ==
    IF i = n * n THEN c
    ELSE LayerCX(IF <<i \div n, i % n>> \in cxs THEN AppendCX(c, i \div n, i % n) ELSE c,
                 n, cxs, i + 1)

FromCircuit(n, hs, cxs) == LayerCX(LayerH(Identity(n), n, hs, 0), n, cxs, 0)

CXSets(n) ==
    {cxs \in SUBSET {pr \in (0..(n - 1)) \X (0..(n - 1)) : pr[1] < pr[2]} :
        Cardinality(cxs) <= CircuitCX}

InitCircuit ==
    /\ num_qubits \in 1..CircuitQubits
    /\ \E hs \in SUBSET (0..(num_qubits - 1)), cxs \in CXSets(num_qubits) :
           /\ clifford = FromCircuit(num_qubits, hs, cxs)
           /\ ngates = Cardinality(hs) + Cardinality(cxs)
    /\ nmeas = 0
    /\ op = "init"
    /\ res = NoRes

\* "0" * k
Zeros(k) == [i \in 1..k |-> "0"]

\* probabilities_dict_from_bitstrings(None, None, ["0..0", t], use_caching)
ProbabilitiesDictFromBitstringsPair ==
    /\ Idle
    /\ \E use_caching \in BOOLEAN, t \in Bitstrings(num_qubits) :
           res' = ProbsResult(NoQargs, TargetList(<<Zeros(num_qubits), t>>), use_caching,
                              probabilities_dict_from_bitstrings(
                                  clifford, num_qubits, NoQargs,
                                  TargetList(<<Zeros(num_qubits), t>>), use_caching))
    /\ op' = "probabilities_dict_from_bitstrings"
    /\ UNCHANGED <<num_qubits, clifford, ngates, nmeas>>

Next == EvolveH \/ EvolveS \/ EvolveCX \/ EvolveX \/ MeasureAndUpdate

Spec == Init /\ [][Next]_vars

NextProbs ==
    \/ EvolveH \/ EvolveS \/ EvolveCX \/ EvolveX
    \/ ProbabilitiesDict \/ ProbabilitiesDictFromBitstrings

SpecProbs == Init /\ [][NextProbs]_vars

NextExpval == EvolveH \/ EvolveS \/ EvolveCX \/ EvolveX \/ ExpectationValue

SpecExpval == Init /\ [][NextExpval]_vars

NextExpvalCall == EvolveH \/ EvolveS \/ EvolveCX \/ EvolveX \/ ExpectationValueCall

SpecExpvalCall == Init /\ [][NextExpvalCall]_vars

NextRowsum == PhaseExponent \/ Rowsum

SpecRowsum == Init /\ [][NextRowsum]_vars

NextSearch ==
    \/ EvolveH \/ EvolveS \/ EvolveCX \/ EvolveX
    \/ MeasureAndUpdate \/ ProbabilitiesDict

SpecSearch == Init /\ [][NextSearch]_vars

NextCache == ProbabilitiesDictFromBitstringsPair

SpecCache == InitCircuit /\ [][NextCache]_vars

(***************************************************************************)
(* Properties.                                                             *)
(***************************************************************************)

RECURSIVE SumValues(_, _)
\* the sum of d[k] for k in keys
SumValues(d, keys) ==
    IF keys = {} THEN 0
    ELSE LET k == CHOOSE k \in keys : TRUE
         IN  d[k] + SumValues(d, keys \ {k})

\* the strings of a target argument
TargetsOf(target) ==
    IF target.form = "none" THEN {}
    ELSE IF target.form = "str" THEN {target.s}
    ELSE {target.l[i] : i \in DOMAIN target.l}

\* the number of qubits of the call that produced res
ResK == Len(QubitsOf(res.qargs, num_qubits))

\* the map probabilities_dict() returns on the qubits of the call that produced res
FullDict == probabilities_dict(clifford, num_qubits, res.qargs).probs

\* the value of key t in the map d, 0 when t is absent
ValueOr0(d, t) == IF t \in DOMAIN d THEN d[t] ELSE 0

\* C1: a tableau that satisfies the symplectic invariant still satisfies it
\* after any sequence of _measure_and_update calls (on any qubit, with any
\* supplied bit, deterministic or not).
C1_SymplecticPreserved ==
    /\ Symplectic(clifford, num_qubits)
    /\ op = "_measure_and_update" =>
           (Symplectic(res.before, num_qubits) /\ ~res.err)

C1_Witness ==
    /\ op = "_measure_and_update" /\ nmeas >= 2
    /\ ~res.det /\ res.before # clifford
    /\ num_qubits >= 2

\* C2: the values of the map probabilities_dict() returns sum to exactly 1.
C2_ProbabilitiesSumToOne ==
    op = "probabilities_dict" =>
        (~res.err /\ SumValues(res.probs, DOMAIN res.probs) = ProbOne)

C2_Witness ==
    /\ op = "probabilities_dict"
    /\ Cardinality(DOMAIN res.probs) = 4
    /\ SumValues(res.probs, DOMAIN res.probs) = ProbOne

\* the call that produced res had target = a list of all 2^k bitstrings
AllTargetsCall ==
    /\ op = "probabilities_dict_from_bitstrings"
    /\ res.target.form = "list"
    /\ Len(res.target.l) = Pow2(ResK)
    /\ TargetsOf(res.target) = Bitstrings(ResK)

C4_CachedEqualsUncached ==
    (op = "probabilities_dict_from_bitstrings" /\ res.cached) =>
        res.probs = probabilities_dict_from_bitstrings(
                        clifford, num_qubits, res.qargs, res.target, FALSE).probs

\* the call that produced res had one target string and caching off
SingleTargetCall ==
    /\ op = "probabilities_dict_from_bitstrings"
    /\ Cardinality(TargetsOf(res.target)) = 1
    /\ res.target.form = "list" => Len(res.target.l) = 1
    /\ ~res.use_caching

\* C5: for a single target t with caching off, the value returned for t is the
\* value of t in the unrestricted probabilities_dict(), or 0 when t is absent
\* from it.
C5_SingleTargetMatchesDict ==
    SingleTargetCall =>
        \A t \in TargetsOf(res.target) :
            t \in DOMAIN res.probs /\ res.probs[t] = ValueOr0(FullDict, t)

C5_Witness ==
    /\ SingleTargetCall /\ ResK = 2
    /\ \E t \in TargetsOf(res.target) : res.probs[t] = ProbOne \div 4

\* position i (0-based) of target t asks for a bit other than the outcome of
\* the deterministic qubit at that position
Disagrees(t, i) ==
    LET qubit == QubitOf(QubitsOf(res.qargs, num_qubits), i)
    IN  /\ _is_qubit_deterministic(clifford, num_qubits, qubit)
        /\ IntOf(t[i + 1]) # _measure_and_update(clifford, num_qubits, qubit, 0).outcome

COne == <<1, 0>>

Units == {<<1, 0>>, <<-1, 0>>, <<0, 1>>, <<0, -1>>}

\* (-i)^k, tabulated
MinusIPow(k) ==
    CASE k = 0 -> <<1, 0>> [] k = 1 -> <<0, -1>> [] k = 2 -> <<-1, 0>> [] k = 3 -> <<0, 1>>

\* The unsigned Pauli string P0 of the operator of the call that produced res,
\* placed on the qubits of the call: [x, z] over all qubits.
EmbeddedOper ==
    LET qubits == QubitsOf(res.qargs, num_qubits)
        at(q, bits) == IF \E i \in DOMAIN qubits : qubits[i] = q
                       THEN bits[(CHOOSE i \in DOMAIN qubits : qubits[i] = q) - 1]
                       ELSE 0
    IN  [x |-> [q \in 0..(num_qubits - 1) |-> at(q, res.oper.x)],
         z |-> [q \in 0..(num_qubits - 1) |-> at(q, res.oper.z)]]

\* stabilizer row p anticommutes with the Pauli string P
AntiWithStab(P, p) ==
    SumTo([q \in 0..(num_qubits - 1) |->
              P.x[q] * clifford.z[p + num_qubits][q]
                + P.z[q] * clifford.x[p + num_qubits][q]], num_qubits) % 2 = 1

\* One-qubit Pauli letters, (1,1) being Y, and the exponent e of
\* a * b = i^e * (the letter of the xor), from the multiplication table
\* XY = iZ, YZ = iX, ZX = iY.
Letter(x, z) ==
    IF x = 0 THEN (IF z = 0 THEN "I" ELSE "Z") ELSE (IF z = 0 THEN "X" ELSE "Y")

LetterExp(a, b) ==
    IF <<a, b>> \in {<<"X", "Y">>, <<"Y", "Z">>, <<"Z", "X">>} THEN 1
    ELSE IF <<a, b>> \in {<<"Y", "X">>, <<"Z", "Y">>, <<"X", "Z">>} THEN 3
    ELSE 0

\* the product a * b of two Pauli strings with phases i^e: [x, z, e]
PauliMul(a, b) ==
    [x |-> [q \in 0..(num_qubits - 1) |-> Xor(a.x[q], b.x[q])],
     z |-> [q \in 0..(num_qubits - 1) |-> Xor(a.z[q], b.z[q])],
     e |-> (a.e + b.e
              + SumTo([q \in 0..(num_qubits - 1) |->
                          LetterExp(Letter(a.x[q], a.z[q]), Letter(b.x[q], b.z[q]))],
                      num_qubits)) % 4]

\* stabilizer row p as a signed Pauli string
StabRow(p) ==
    [x |-> clifford.x[p + num_qubits], z |-> clifford.z[p + num_qubits],
     e |-> 2 * clifford.phase[p + num_qubits]]

RECURSIVE StabProduct(_, _)
\* the product of the stabilizer rows of the set T, rows >= p, in row order
StabProduct(T, p) ==
    IF p = num_qubits THEN [x |-> PauliI(num_qubits).x, z |-> PauliI(num_qubits).z, e |-> 0]
    ELSE IF p \in T THEN PauliMul(StabRow(p), StabProduct(T, p + 1))
    ELSE StabProduct(T, p + 1)

\* the group generated by the signed stabilizer rows
StabGroup == {StabProduct(T, 0) : T \in SUBSET (0..(num_qubits - 1))}

\* the operator of the call that produced res is stabilizer row p with its sign
IsOwnStabilizer(p) ==
    /\ res.qargs = NoQargs
    /\ res.oper.x = clifford.x[p + num_qubits]
    /\ res.oper.z = clifford.z[p + num_qubits]
    /\ res.oper.phase = 2 * clifford.phase[p + num_qubits]

\* C7: expectation_value of each of the state's own stabilizer generator rows,
\* taken with the row's sign, is exactly 1.
C7_OwnStabilizerIsOne ==
    (op = "expectation_value" /\ \E p \in 0..(num_qubits - 1) : IsOwnStabilizer(p))
        => res.value = COne

C7_Witness ==
    /\ op = "expectation_value" /\ num_qubits = 2
    /\ \E p \in 0..(num_qubits - 1) :
           /\ IsOwnStabilizer(p)
           /\ clifford.phase[p + num_qubits] = 1
           /\ \E q \in 0..(num_qubits - 1) : clifford.x[p + num_qubits][q] = 1
    /\ res.value = COne

\* C8: expectation_value returns exactly 0 iff some stabilizer row anticommutes
\* with the embedded Pauli operator; otherwise it returns a value of modulus 1.
C8_ZeroIffAnticommutes ==
    op = "expectation_value" =>
        /\ res.value = <<0, 0>> <=>
               \E p \in 0..(num_qubits - 1) : AntiWithStab(EmbeddedOper, p)
        /\ res.value # <<0, 0>> => res.value \in Units

C8_Witness ==
    /\ op = "expectation_value" /\ num_qubits = 2 /\ res.qargs = <<1, 0>>
    /\ res.value = <<0, 0>>
    /\ ~AntiWithStab(EmbeddedOper, 0) /\ AntiWithStab(EmbeddedOper, 1)

\* C9: for an operator (-i)^k * P0 that commutes with every stabilizer row,
\* expectation_value returns (-i)^k if +P0 is in the group generated by the
\* signed stabilizer rows and -(-i)^k if -P0 is in it (one of the two is);
\* the value is one of 1, -1, i, -i.
C9_SignFromStabilizerGroup ==
    (op = "expectation_value"
       /\ \A p \in 0..(num_qubits - 1) : ~AntiWithStab(EmbeddedOper, p)) =>
        LET plus  == [x |-> EmbeddedOper.x, z |-> EmbeddedOper.z, e |-> 0]
            minus == [x |-> EmbeddedOper.x, z |-> EmbeddedOper.z, e |-> 2]
        IN  /\ plus \in StabGroup \/ minus \in StabGroup
            /\ plus \in StabGroup => res.value = MinusIPow(res.oper.phase)
            /\ minus \in StabGroup => res.value = CNeg(MinusIPow(res.oper.phase))
            /\ res.value \in Units

C9_Witness ==
    /\ op = "expectation_value" /\ num_qubits = 2
    /\ \A p \in 0..(num_qubits - 1) : ~AntiWithStab(EmbeddedOper, p)
    /\ [x |-> EmbeddedOper.x, z |-> EmbeddedOper.z, e |-> 2] \in StabGroup
    /\ \A q \in 0..1 : EmbeddedOper.x[q] = 1 /\ EmbeddedOper.z[q] = 1
    /\ res.oper.phase = 3
    /\ res.value = <<0, -1>>

\* the tableau of the Bell state: ground state, H on qubit 0, CX from 0 to 1
BellTableau == AppendCX(AppendH(Identity(2), 0), 0, 1)

\* C10: for the 2-qubit Bell state probabilities_dict() is {"00": 0.5, "11": 0.5},
\* and probabilities_dict_from_bitstrings with target "01" or "10" yields
\* probability 0 for that target.
C10_BellProbabilities ==
    (num_qubits = 2 /\ clifford = BellTableau /\ res.kind = "probs"
       /\ res.qargs = NoQargs) =>
        /\ op = "probabilities_dict" =>
               res.probs = (<<"0", "0">> :> ProbOne \div 2) @@ (<<"1", "1">> :> ProbOne \div 2)
        /\ \A t \in {<<"0", "1">>, <<"1", "0">>} :
               (op = "probabilities_dict_from_bitstrings" /\ t \in TargetsOf(res.target))
                   => (t \in DOMAIN res.probs /\ res.probs[t] = 0)

C10_Witness ==
    /\ num_qubits = 2 /\ clifford = BellTableau /\ ngates = 2
    /\ op = "probabilities_dict_from_bitstrings" /\ res.qargs = NoQargs
    /\ res.target = TargetStr(<<"0", "1">>)
    /\ res.probs = (<<"0", "1">> :> 0)

C10_WitnessDict ==
    /\ num_qubits = 2 /\ clifford = BellTableau /\ ngates = 2
    /\ op = "probabilities_dict" /\ res.qargs = NoQargs
    /\ DOMAIN res.probs = {<<"0", "0">>, <<"1", "1">>}

(***************************************************************************)
(* measure, reset, sample_memory and probabilities on the heap.           *)
(***************************************************************************)

MaxShots == 2

RECURSIVE MeasureLoopMutA(_, _, _, _, _, _)
\* the measure loop building the string as outcome + str(bit)
MeasureLoopMutA(a, ret, n, qargs, randbits, bit) ==
    IF bit > Len(qargs) \/ a.err THEN a
    ELSE LET Step(m) ==
                 [heap |-> [a.heap EXCEPT ![ret] = m.clifford],
                  outcome |-> a.outcome \o <<Str(m.outcome)>>,
                  bits |-> Append(a.bits, m.outcome),
                  err |-> m.err]
         IN  MeasureLoopMutA(Step(_measure_and_update(a.heap[ret], n, qargs[bit],
                                                      randbits[bit])),
                             ret, n, qargs, randbits, bit + 1)

RECURSIVE MeasureLoop(_, _, _, _, _, _)
\* lines 573-575, from index `bit` of qargs on; a = [heap, outcome, bits, err],
\* bits being the bit each call returned, in the order of the calls.
MeasureLoop(a, ret, n, qargs, randbits, bit) ==
    IF bit > Len(qargs) \/ a.err THEN a
    ELSE LET Step(m) ==
                 [heap |-> [a.heap EXCEPT ![ret] = m.clifford],
                  outcome |-> <<Str(m.outcome)>> \o a.outcome,
                  bits |-> Append(a.bits, m.outcome),
                  err |-> m.err]
         IN  MeasureLoop(Step(_measure_and_update(a.heap[ret], n, qargs[bit], randbits[bit])),
                         ret, n, qargs, randbits, bit + 1)

\* measure with ret = self in place of line 571 (ret = self.copy())
measureMutA(heap, self, n, qargs, randbits) ==
    LET qubits == QubitsOf(qargs, n)
        Return(a, ret) ==
            [heap |-> a.heap, outcome |-> a.outcome, bits |-> a.bits, state |-> ret,
             draws |-> Len(qubits), err |-> a.err]
    IN  Return(MeasureLoop([heap |-> heap, outcome |-> <<>>, bits |-> <<>>, err |-> FALSE],
                           self, n, qubits, randbits, 1),
               self)

\* measure(qargs) on object self with the bits the generator supplies:
\* [heap, outcome, bits, state, draws, err]; state is the returned object.
measure(heap, self, n, qargs, randbits) ==
    LET qubits == QubitsOf(qargs, n)
        Return(a, ret) ==
            [heap |-> a.heap, outcome |-> a.outcome, bits |-> a.bits, state |-> ret,
             draws |-> Len(qubits), err |-> a.err]
        Run(c) ==
            Return(MeasureLoop([heap |-> c.heap, outcome |-> <<>>, bits |-> <<>>,
                                err |-> FALSE],
                               c.ref, n, qubits, randbits, 1),
                   c.ref)
    IN  Run(copy(heap, self))

RECURSIVE ResetLoopMutA(_, _, _, _, _, _)
\* the reset loop without the X gate on outcome 1
ResetLoopMutA(a, ret, n, qargs, randbits, bit) ==
    IF bit > Len(qargs) \/ a.err THEN a
    ELSE LET Step(m) == [heap |-> [a.heap EXCEPT ![ret] = m.clifford], err |-> m.err]
         IN  ResetLoopMutA(Step(_measure_and_update(a.heap[ret], n, qargs[bit], randbits[bit])),
                           ret, n, qargs, randbits, bit + 1)

RECURSIVE ResetLoop(_, _, _, _, _, _)
\* lines 538-545, from index `bit` of qargs on; a = [heap, err].
ResetLoop(a, ret, n, qargs, randbits, bit) ==
    IF bit > Len(qargs) \/ a.err THEN a
    ELSE LET Step(m) ==
                 [heap |-> [a.heap EXCEPT ![ret] =
                               IF m.outcome = 1 /\ ~m.err
                               THEN AppendX(m.clifford, qargs[bit]) ELSE m.clifford],
                  err |-> m.err]
         IN  ResetLoop(Step(_measure_and_update(a.heap[ret], n, qargs[bit], randbits[bit])),
                       ret, n, qargs, randbits, bit + 1)

\* reset(None) sampling every qubit instead of building the ground state
resetMutA(heap, self, n, qargs, randbits) ==
    LET qubits == QubitsOf(qargs, n)
        Return(a, ret) == [heap |-> a.heap, state |-> ret, draws |-> Len(qubits), err |-> a.err]
        Run(c) == Return(ResetLoop([heap |-> c.heap, err |-> FALSE], c.ref, n, qubits,
                                   [i \in 1..Len(qubits) |-> 0], 1),
                         c.ref)
    IN  Run(copy(heap, self))

\* reset(qargs) on object self: [heap, state, draws, err]; draws is the number
\* of random bits taken from the generator.
reset(heap, self, n, qargs, randbits) ==
    IF qargs = NoQargs
    THEN LET new == Cardinality(DOMAIN heap)
         IN  [heap |-> heap @@ (new :> Identity(n)), state |-> new, draws |-> 0,
              err |-> FALSE]
    ELSE LET Return(a, ret) ==
                 [heap |-> a.heap, state |-> ret, draws |-> Len(qargs), err |-> a.err]
             Run(c) == Return(ResetLoop([heap |-> c.heap, err |-> FALSE], c.ref, n, qargs,
                                        randbits, 1),
                              c.ref)
         IN  Run(copy(heap, self))

RECURSIVE sample_memory(_, _, _, _, _, _)
\* sample_memory(shots, qargs), shot by shot; randbits[s] are the bits of shot s.
\* a = [heap, memory, err].
sample_memory(a, self, n, shots, qargs, randbits) ==
    IF Len(a.memory) = shots \/ a.err THEN a
    ELSE LET Shot(r) ==
                 [heap |-> r.heap, memory |-> Append(a.memory, r.outcome), err |-> r.err]
             Measured(c) ==
                 Shot(measure(c.heap, c.ref, n, qargs, randbits[Len(a.memory) + 1]))
         IN  sample_memory(Measured(copy(a.heap, self)), self, n, shots, qargs, randbits)

\* int(key, 2)
Place(key) ==
    SumTo([i \in 0..(Len(key) - 1) |-> IntOf(key[i + 1]) * Pow2(Len(key) - 1 - i)], Len(key))

\* probabilities(qargs): the vector of length 2^k
probabilities(self, n, qargs) ==
    LET Vector(probs_dict) ==
            [place \in 0..(Pow2(Len(QubitsOf(qargs, n))) - 1) |->
                IF \E key \in DOMAIN probs_dict : Place(key) = place
                THEN probs_dict[CHOOSE key \in DOMAIN probs_dict : Place(key) = place]
                ELSE 0]
    IN  Vector(probabilities_dict(self, n, qargs).probs)

\* The qargs of measure and sample_memory: None, or any list of qubits.
MeasureQargs(n) == {NoQargs} \cup UNION {[1..k -> 0..(n - 1)] : k \in 1..n}

MeasureQargsOf == [n \in 1..MaxQubits |-> MeasureQargs(n)]

\* the state is between calls: constructed, evolved, or adopted from a result
Ready == Idle \/ op = "adopt"

MeasureDone(qargs, randbits, r) ==
    /\ clifford' = r.heap[Receiver]
    /\ res' = [kind |-> "measure", qargs |-> qargs, randbits |-> randbits,
               outcome |-> r.outcome, bits |-> r.bits, state |-> r.heap[r.state],
               draws |-> r.draws, err |-> r.err]

\* outcome, ret = self.measure(qargs)
Measure ==
    /\ Ready
    /\ \E qargs \in MeasureQargsOf[num_qubits] :
         \E randbits \in [1..Len(QubitsOf(qargs, num_qubits)) -> Bit] :
           MeasureDone(qargs, randbits,
                       measure(HeapOf(clifford), Receiver, num_qubits, qargs, randbits))
    /\ op' = "measure"
    /\ UNCHANGED <<num_qubits, ngates, nmeas>>

ResetDone(qargs, randbits, r) ==
    /\ clifford' = r.heap[Receiver]
    /\ res' = [kind |-> "reset", qargs |-> qargs, randbits |-> randbits,
               state |-> r.heap[r.state], draws |-> r.draws, err |-> r.err]

\* ret = self.reset(qargs)
Reset ==
    /\ Ready
    /\ \E qargs \in QargsOf[num_qubits] :
         \E randbits \in [1..Len(QubitsOf(qargs, num_qubits)) -> Bit] :
           ResetDone(qargs, randbits,
                     reset(HeapOf(clifford), Receiver, num_qubits, qargs, randbits))
    /\ op' = "reset"
    /\ UNCHANGED <<num_qubits, ngates, nmeas>>

\* The caller goes on with the state a measure or reset returned.
Adopt ==
    /\ op \in {"measure", "reset"} /\ nmeas < MaxMeasures /\ ~res.err
    /\ clifford' = res.state
    /\ nmeas' = nmeas + 1
    /\ op' = "adopt" /\ res' = NoRes
    /\ UNCHANGED <<num_qubits, ngates>>

SampleMemoryDone(shots, qargs, r) ==
    /\ clifford' = r.heap[Receiver]
    /\ res' = [kind |-> "memory", shots |-> shots, qargs |-> qargs,
               memory |-> r.memory, err |-> r.err]

\* memory = self.sample_memory(shots, qargs)
SampleMemory ==
    /\ Idle
    /\ \E shots \in 1..MaxShots, qargs \in MeasureQargsOf[num_qubits] :
         \E randbits \in [1..shots -> [1..Len(QubitsOf(qargs, num_qubits)) -> Bit]] :
           SampleMemoryDone(shots, qargs,
                            sample_memory([heap |-> HeapOf(clifford), memory |-> <<>>,
                                           err |-> FALSE],
                                          Receiver, num_qubits, shots, qargs, randbits))
    /\ op' = "sample_memory"
    /\ UNCHANGED <<num_qubits, ngates, nmeas>>

\* probs = self.probabilities(qargs)
Probabilities ==
    /\ Idle
    /\ \E qargs \in QargsOf[num_qubits] :
           /\ res' = [kind |-> "vector", qargs |-> qargs,
                      vector |-> probabilities(clifford, num_qubits, qargs)]
           /\ clifford' = ProbabilitiesWrites(HeapOf(clifford), Receiver, num_qubits,
                                              qargs, TargetNone, FALSE)[Receiver]
    /\ op' = "probabilities"
    /\ UNCHANGED <<num_qubits, ngates, nmeas>>

NextOps == EvolveH \/ EvolveS \/ EvolveCX \/ EvolveX \/ Measure \/ Reset \/ Adopt

SpecOps == Init /\ [][NextOps]_vars

NextPublic ==
    \/ EvolveH \/ EvolveS \/ EvolveCX \/ EvolveX
    \/ Measure \/ Reset \/ SampleMemory
    \/ Probabilities \/ ProbabilitiesDict \/ ProbabilitiesDictFromBitstrings
    \/ ExpectationValue

SpecPublic == Init /\ [][NextPublic]_vars

(***************************************************************************)
(* Properties of measure, reset and the other public operations.           *)
(***************************************************************************)

\* the qubit list of the call that produced res
ResQubits == QubitsOf(res.qargs, num_qubits)

\* C11: reset(None) returns the ground-state (identity) tableau without drawing
\* a random bit, and measure() of that state returns the all-zero string for
\* every sequence of random bits.
C11_ResetAllIsGround ==
    (op = "reset" /\ res.qargs = NoQargs) =>
        /\ res.state = Identity(num_qubits)
        /\ res.draws = 0
        /\ ~res.err
        /\ \A randbits \in [1..num_qubits -> Bit] :
               measure(HeapOf(res.state), Receiver, num_qubits, NoQargs, randbits).outcome
                   = Zeros(num_qubits)

C11_Witness ==
    /\ op = "reset" /\ res.qargs = NoQargs /\ num_qubits = 2
    /\ \A q \in 0..1 : ~_is_qubit_deterministic(clifford, num_qubits, q)
    /\ res.state = Identity(num_qubits)

\* qubit q of tableau c is deterministic with measurement outcome 0
IsZero(c, n, q) ==
    /\ _is_qubit_deterministic(c, n, q)
    /\ _measure_and_update(c, n, q, 1).outcome = 0

\* C12: in the state reset(qargs) returns, for a list qargs of distinct qubits
\* in any order and any random bits, every qubit of qargs is deterministic with
\* measurement outcome 0.
C12_ResetQubitsAreZero ==
    (op = "reset" /\ res.qargs # NoQargs) =>
        /\ ~res.err
        /\ \A i \in DOMAIN res.qargs : IsZero(res.state, num_qubits, res.qargs[i])

C12_Witness ==
    /\ op = "reset" /\ res.qargs = <<1, 0>> /\ res.randbits = <<1, 1>>
    /\ \A q \in 0..1 : ~_is_qubit_deterministic(clifford, num_qubits, q)
    /\ \A q \in 0..1 : IsZero(res.state, num_qubits, q)

\* the outcome of qubit q in the post-measurement tableau c, where it is fixed
OutcomeIn(c, n, q) == _measure_and_update(c, n, q, 0).outcome

\* the highest-indexed qubit of the call that produced res
HighestQubit ==
    CHOOSE q \in 0..(num_qubits - 1) :
        /\ \E i \in DOMAIN ResQubits : ResQubits[i] = q
        /\ \A i \in DOMAIN ResQubits : ResQubits[i] <= q

\* C13 (as stated): the leftmost character of the string measure(qargs) returns
\* is the outcome of the highest-indexed sampled qubit, for every qargs list.
C13_LeftmostIsHighestQubit ==
    (op = "measure" /\ ~res.err) =>
        res.outcome[1] = Str(OutcomeIn(res.state, num_qubits, HighestQubit))

\* C13 (amended): character i (0 = leftmost) of the string measure(qargs)
\* returns is the outcome of qubit qargs[k-1-i]; the leftmost character is the
\* outcome of the last-listed qubit.
C13_LeftmostIsLastListed ==
    (op = "measure" /\ ~res.err) =>
        LET k == Len(ResQubits)
        IN  /\ Len(res.outcome) = k
            /\ \A i \in 0..(k - 1) :
                   /\ _is_qubit_deterministic(res.state, num_qubits, ResQubits[k - i])
                   /\ res.outcome[i + 1]
                          = Str(OutcomeIn(res.state, num_qubits, ResQubits[k - i]))
                   /\ res.outcome[i + 1] = Str(res.bits[k - i])

C13_Witness ==
    /\ op = "measure" /\ res.qargs = <<1, 0>>
    /\ res.outcome = <<"1", "0">>
    /\ OutcomeIn(res.state, num_qubits, 0) = 1
    /\ OutcomeIn(res.state, num_qubits, 1) = 0

\* C14: the string measure(qargs) returns is a key of probabilities_dict(qargs)
\* of the same state, with a non-zero probability, for every qubit list and
\* every choice of random bits.
C14_MeasuredOutcomeIsPossible ==
    (op = "measure" /\ ~res.err) =>
        /\ res.outcome \in DOMAIN probabilities_dict(clifford, num_qubits, res.qargs).probs
        /\ ValueOr0(probabilities_dict(clifford, num_qubits, res.qargs).probs, res.outcome) > 0

C14_Witness ==
    /\ op = "measure" /\ res.qargs = <<1, 0>> /\ res.outcome = <<"0", "1">>
    /\ ValueOr0(probabilities_dict(clifford, num_qubits, res.qargs).probs, res.outcome) = ProbOne \div 4

\* the public operations that read a state
PublicOps ==
    {"measure", "reset", "sample_memory", "expectation_value", "probabilities",
     "probabilities_dict", "probabilities_dict_from_bitstrings"}

PossibleBits(c, n, q) ==
    IF _is_qubit_deterministic(c, n, q) THEN {OutcomeIn(c, n, q)} ELSE Bit

\* the keys of the returned dictionary that have a non-zero probability
NonZeroKeys == {key \in DOMAIN res.probs : res.probs[key] > 0}

\* H on qubit 0 of the two-qubit ground state
PlusZero == AppendH(Identity(2), 0)

\* C16: in a returned probabilities dictionary, character i of a key (from the
\* left, 0-based) is the outcome of qubit qargs[k - 1 - i]: the characters at
\* position i of the keys with non-zero probability are outcomes that qubit can
\* give, and all of them when no target is given.  For H on qubit 0 of the
\* two-qubit ground state, qargs [0, 1] gives the keys 00 and 01, and qargs
\* [1, 0] gives 00 and 10.
C16_KeyCharacterIsQubit ==
    (op \in {"probabilities_dict", "probabilities_dict_from_bitstrings"} /\ ~res.err) =>
        /\ \A i \in 0..(ResK - 1) :
               /\ {key[i + 1] : key \in NonZeroKeys}
                      \subseteq {Str(b) : b \in PossibleBits(clifford, num_qubits,
                                                           ResQubits[ResK - i])}
               /\ res.target = TargetNone =>
                      {key[i + 1] : key \in NonZeroKeys}
                          = {Str(b) : b \in PossibleBits(clifford, num_qubits,
                                                         ResQubits[ResK - i])}
        /\ (num_qubits = 2 /\ clifford = PlusZero /\ res.target = TargetNone) =>
               /\ res.qargs = <<0, 1>> => NonZeroKeys = {<<"0", "0">>, <<"0", "1">>}
               /\ res.qargs = <<1, 0>> => NonZeroKeys = {<<"0", "0">>, <<"1", "0">>}

C16_Witness ==
    /\ op = "probabilities_dict" /\ num_qubits = 2 /\ clifford = PlusZero
    /\ res.qargs = <<1, 0>>
    /\ NonZeroKeys = {<<"0", "0">>, <<"1", "0">>}

\* the call of expectation_value that produced res
ExpvalCall == op = "expectation_value" /\ res.kind = "expval_call"

\* C17: expectation_value called with an argument that is not a Pauli operator
\* raises the error of lines 273-274, returns no value and leaves the tableau
\* as it was.
C17_NonPauliRaises ==
    (ExpvalCall /\ res.oper.type # "Pauli") =>
        /\ res.raised = "QiskitError"
        /\ res.value = NoValue
        /\ clifford = res.before

C17_Witness ==
    /\ ExpvalCall /\ res.oper.type = "Operator" /\ res.raised = "QiskitError"
    /\ ngates > 0

\* the length of the qubit list differs from the operator's number of qubits
Mismatch ==
    /\ ExpvalCall /\ res.oper.type = "Pauli"
    /\ Len(ResQubits) # NumQubitsOf(res.oper)

\* C18 (as stated): expectation_value fails with an error whenever the length
\* of the qubit list (qargs, or all qubits) differs from the number of qubits
\* of the Pauli operator; it never returns a value computed from a part of the
\* operator.
C18_MismatchRaises ==
    Mismatch => (res.raised # "none" /\ res.value = NoValue)

\* C18 (the code): an operator shorter than the qubit list raises IndexError,
\* not a dimension-mismatch error; a longer one is accepted, and the value
\* returned is that of its first len(qubits) components.
C18_ExtraComponentsIgnored ==
    Mismatch =>
        IF Len(ResQubits) > NumQubitsOf(res.oper)
        THEN res.raised = "IndexError" /\ res.value = NoValue
        ELSE /\ res.raised = "none"
             /\ res.value = expectation_value(
                                clifford, num_qubits,
                                [x |-> [pos \in 0..(Len(ResQubits) - 1) |-> res.oper.x[pos]],
                                 z |-> [pos \in 0..(Len(ResQubits) - 1) |-> res.oper.z[pos]],
                                 phase |-> res.oper.phase],
                                res.qargs)

C18_Witness ==
    /\ Mismatch /\ num_qubits = 1 /\ ngates = 0 /\ res.qargs = NoQargs
    /\ res.oper.x = (0 :> 0 @@ 1 :> 1) /\ res.oper.z = (0 :> 1 @@ 1 :> 0)
    /\ res.oper.phase = 0
    /\ res.raised = "none" /\ res.value = <<1, 0>>

\* more than one target string was supplied to the call that produced res
SeveralTargets == res.target.form = "list" /\ Len(res.target.l) > 1

\* C19: a probabilities_dict_from_bitstrings call creates and consults a cache
\* if and only if use_caching is true and more than one target string was
\* supplied; with no target, one target string or a one-element list there is
\* no cache, no lookup and no insertion; probabilities_dict never uses a cache.
C19_CacheOnlyForSeveralTargets ==
    (op \in {"probabilities_dict", "probabilities_dict_from_bitstrings"} /\ ~res.err) =>
        /\ res.cached <=> (res.use_caching /\ SeveralTargets)
        /\ res.cached => res.reads >= Len(res.target.l)
        /\ ~res.cached => (res.reads = 0 /\ res.entries = 0)
        /\ op = "probabilities_dict" => (~res.cached /\ res.reads = 0 /\ res.entries = 0)

C19_Witness ==
    /\ op = "probabilities_dict_from_bitstrings" /\ res.use_caching /\ SeveralTargets
    /\ res.cached /\ res.entries > 0 /\ res.reads > Len(res.target.l)

\* a call asking for caching with a single target
C19_WitnessSingle ==
    /\ op = "probabilities_dict_from_bitstrings" /\ res.use_caching
    /\ res.target.form \in {"str", "list"} /\ ~SeveralTargets
    /\ ResK = 2 /\ ~res.cached /\ res.reads = 0

\* C20: when _measure_and_update takes the deterministic path (no stabilizer
\* row has its x bit set at the qubit), every x bit, z bit and phase bit of
\* every row of the tableau is the same after the call as before it.
C20_DeterministicLeavesTableau ==
    (op = "_measure_and_update" /\ res.det) =>
        /\ _is_qubit_deterministic(res.before, num_qubits, res.qubit)
        /\ \A r \in Rows(res.before) :
               /\ clifford.phase[r] = res.before.phase[r]
               /\ \A q \in 0..(num_qubits - 1) :
                      /\ clifford.x[r][q] = res.before.x[r][q]
                      /\ clifford.z[r][q] = res.before.z[r][q]
        /\ Rows(clifford) = Rows(res.before)

\* a deterministic call that added a stabilizer row to the accumulator and
\* returned 1
C20_Witness ==
    /\ op = "_measure_and_update" /\ res.det /\ ~res.err
    /\ num_qubits = 2 /\ res.outcome = 1
    /\ Cardinality({i \in 0..(num_qubits - 1) : res.before.x[i][res.qubit] = 1}) = 2

(***************************************************************************)
(* Properties of the measurement of one qubit.                             *)
(***************************************************************************)

\* (-1)^b * Z_q as a signed Pauli string
SignedZ(q, b) ==
    [x |-> [k \in 0..(num_qubits - 1) |-> 0],
     z |-> [k \in 0..(num_qubits - 1) |-> IF k = q THEN 1 ELSE 0],
     e |-> 2 * b]

\* C21: for a valid tableau and a deterministic qubit q, _measure_and_update
\* returns, whatever bit is supplied, the bit b for which (-1)^b * Z_q is in
\* the group generated by the signed stabilizer rows.
C21_DeterministicOutcomeInGroup ==
    (op = "_measure_and_update" /\ res.det) =>
        /\ ~res.err
        /\ clifford = res.before
        /\ SignedZ(res.qubit, res.outcome) \in StabGroup
        /\ SignedZ(res.qubit, 1 - res.outcome) \notin StabGroup
        /\ \A randbit \in Bit :
               _measure_and_update(res.before, num_qubits, res.qubit, randbit).outcome
                   = res.outcome

\* a deterministic outcome 1 that is the product of two stabilizer rows, one
\* of them with the sign -1
C21_Witness ==
    /\ op = "_measure_and_update" /\ res.det /\ res.outcome = 1
    /\ num_qubits = 2
    /\ SignedZ(res.qubit, 1) = StabProduct({0, 1}, 0)
    /\ clifford.phase[num_qubits] # clifford.phase[num_qubits + 1]

\* the lowest-indexed stabilizer row of c with its x bit set at qubit q
LowestStabilizer(c, n, q) ==
    CHOOSE p \in n..(2 * n - 1) :
        c.x[p][q] = 1 /\ \A r \in n..(p - 1) : c.x[r][q] = 0

\* the call that produced res took the non-deterministic path and returned
NonDeterministicCall == op = "_measure_and_update" /\ ~res.det /\ ~res.err

\* the pivot of the call that produced res
ResPivot == LowestStabilizer(res.before, num_qubits, res.qubit)

\* C22: in the non-deterministic path of _measure_and_update on qubit q with
\* supplied bit r, with p the lowest-indexed stabilizer row that has its x bit
\* set at q: the returned outcome is r, the destabilizer row paired with p
\* holds what row p held before the call (x, z and phase), and row p has every
\* x bit 0, the single z bit q and the phase bit r.
C22_PivotUpdate ==
    NonDeterministicCall =>
        /\ \E p \in num_qubits..(2 * num_qubits - 1) : res.before.x[p][res.qubit] = 1
        /\ res.outcome = res.randbit
        /\ clifford.x[ResPivot - num_qubits] = res.before.x[ResPivot]
        /\ clifford.z[ResPivot - num_qubits] = res.before.z[ResPivot]
        /\ clifford.phase[ResPivot - num_qubits] = res.before.phase[ResPivot]
        /\ \A k \in 0..(num_qubits - 1) :
               /\ clifford.x[ResPivot][k] = 0
               /\ clifford.z[ResPivot][k] = (IF k = res.qubit THEN 1 ELSE 0)
        /\ clifford.phase[ResPivot] = res.randbit

\* a call with two candidate pivot rows, a pivot row with the sign -1 and the
\* supplied bit 1
C22_Witness ==
    /\ NonDeterministicCall /\ num_qubits = 2 /\ res.randbit = 1
    /\ \A p \in 2..3 : res.before.x[p][res.qubit] = 1
    /\ res.before.phase[2] = 1
    /\ clifford.phase[0] = 1

\* C23: after a non-deterministic _measure_and_update of qubit q that returned
\* b on a valid tableau, the only row of the tableau with its x bit set at q is
\* the destabilizer paired with the pivot (so no stabilizer row has it), and a
\* repeated _measure_and_update of q is deterministic and returns b for either
\* supplied bit.
C23_RepeatedMeasurementAgrees ==
    NonDeterministicCall =>
        /\ {r \in Rows(clifford) : clifford.x[r][res.qubit] = 1}
               = {ResPivot - num_qubits}
        /\ _is_qubit_deterministic(clifford, num_qubits, res.qubit)
        /\ \A randbit \in Bit :
               /\ _measure_and_update(clifford, num_qubits, res.qubit, randbit).det
               /\ ~_measure_and_update(clifford, num_qubits, res.qubit, randbit).err
               /\ _measure_and_update(clifford, num_qubits, res.qubit, randbit).outcome
                      = res.outcome

\* a call that returned 1 and cleared the x bit of a destabilizer row other
\* than the pivot's
C23_Witness ==
    /\ NonDeterministicCall /\ num_qubits = 2 /\ res.outcome = 1
    /\ \E r \in 0..1 : r # ResPivot - num_qubits /\ res.before.x[r][res.qubit] = 1
    /\ _measure_and_update(clifford, num_qubits, res.qubit, 0).outcome = 1

(***************************************************************************)
(* Properties of _phase_exponent and _rowsum.                              *)
(***************************************************************************)

\* C24: for all 16 combinations of bits, _phase_exponent returns the exponent
\* g in {0, 1, 3} with Pauli(x1, z1) * Pauli(x2, z2) = i^g * Pauli(x1 xor x2,
\* z1 xor z2), (1, 1) being Y; the value is never 2, so the error of lines
\* 665-666 is not raised.
C24_PhaseExponentIsPauliProduct ==
    op = "_phase_exponent" =>
        /\ res.value \in {0, 1, 3}
        /\ ~res.raised
        /\ res.value = LetterExp(Letter(res.x1, res.z1), Letter(res.x2, res.z2))

\* Y * X = -i Z
C24_Witness ==
    /\ op = "_phase_exponent"
    /\ res.x1 = 1 /\ res.z1 = 1 /\ res.x2 = 1 /\ res.z2 = 0
    /\ res.value = 3

\* a signed row as a signed Pauli string
SignedString(r) == [x |-> r.x, z |-> r.z, e |-> 2 * r.phase]

\* the two rows of the _rowsum call that produced res anticommute
RowsAnticommute ==
    SumTo([q \in 0..(num_qubits - 1) |->
              res.row.x[q] * res.accum.z[q] + res.row.z[q] * res.accum.x[q]],
          num_qubits) % 2 = 1

\* 2 * rowPhase + 2 * accumPhase + the sum of the exponents of the letters
RowsumExponent ==
    (2 * res.row.phase + 2 * res.accum.phase
       + SumTo([q \in 0..(num_qubits - 1) |->
                   LetterExp(Letter(res.row.x[q], res.row.z[q]),
                             Letter(res.accum.x[q], res.accum.z[q]))],
               num_qubits)) % 4

\* C25: for two signed Pauli rows on the same qubits, _rowsum raises exactly
\* when the rows anticommute (the exponent sum is then odd); otherwise it
\* returns the signed product row * accum: the x and z bits are the bitwise
\* xor and the phase bit is 1 iff the exponent sum mod 4 is 2.
C25_RowsumIsSignedProduct ==
    op = "_rowsum" =>
        /\ res.out.err <=> RowsAnticommute
        /\ res.out.err => RowsumExponent % 2 = 1
        /\ ~res.out.err =>
               /\ \A q \in 0..(num_qubits - 1) :
                      /\ res.out.pauli.x[q] = Xor(res.row.x[q], res.accum.x[q])
                      /\ res.out.pauli.z[q] = Xor(res.row.z[q], res.accum.z[q])
               /\ res.out.phase = (IF RowsumExponent = 2 THEN 1 ELSE 0)
               /\ RowsumExponent \in {0, 2}
               /\ [x |-> res.out.pauli.x, z |-> res.out.pauli.z, e |-> 2 * res.out.phase]
                      = PauliMul(SignedString(res.row), SignedString(res.accum))

\* (-XX) * (ZZ) = +YY
C25_Witness ==
    /\ op = "_rowsum" /\ num_qubits = 2 /\ ~res.out.err
    /\ res.row = [x |-> (0 :> 1 @@ 1 :> 1), z |-> (0 :> 0 @@ 1 :> 0), phase |-> 1]
    /\ res.accum = [x |-> (0 :> 0 @@ 1 :> 0), z |-> (0 :> 1 @@ 1 :> 1), phase |-> 0]
    /\ res.out.phase = 0
    /\ res.out.pauli.x = (0 :> 1 @@ 1 :> 1) /\ res.out.pauli.z = (0 :> 1 @@ 1 :> 1)

\* two anticommuting rows: _rowsum raises
C25_WitnessRaise ==
    /\ op = "_rowsum" /\ num_qubits = 2 /\ res.out.err /\ RowsAnticommute

\* the rows the non-deterministic path of the call that produced res adds the
\* pivot to
EliminatedRows ==
    {i \in Rows(res.before) :
        /\ res.before.x[i][res.qubit] = 1
        /\ i # ResPivot /\ i # ResPivot - num_qubits}

\* C26: for every valid tableau, every qubit and every supplied bit,
\* _measure_and_update completes without raising: the stabilizer rows the
\* deterministic path accumulates commute with every stabilizer row, and every
\* row the non-deterministic path eliminates commutes with the pivot row.
C26_MeasureNeverRaises ==
    op = "_measure_and_update" =>
        /\ Symplectic(res.before, num_qubits)
        /\ ~res.err
        /\ res.det =>
               \A i \in 0..(num_qubits - 1) :
                   res.before.x[i][res.qubit] = 1 =>
                       \A j \in 0..(num_qubits - 1) :
                           RowsAnti(res.before, num_qubits, i + num_qubits,
                                    j + num_qubits) = 0
        /\ ~res.det =>
               /\ \A i \in EliminatedRows :
                      RowsAnti(res.before, num_qubits, i, ResPivot) = 0
               /\ RowsAnti(res.before, num_qubits, ResPivot - num_qubits, ResPivot) = 1

\* a non-deterministic call that eliminates a destabilizer row and a
\* stabilizer row, while the destabilizer paired with the pivot also has its x
\* bit set at the qubit
C26_Witness ==
    /\ op = "_measure_and_update" /\ ~res.det /\ ~res.err /\ num_qubits = 2
    /\ \E i \in EliminatedRows : i < num_qubits
    /\ \E i \in EliminatedRows : i >= num_qubits
    /\ res.before.x[ResPivot - num_qubits][res.qubit] = 1

(***************************************************************************)
(* Properties of the probability search, on the calls of                   *)
(* _get_probabilities a probabilities call has made (res.nodes).           *)
(***************************************************************************)

\* A probabilities call has returned.
SearchDone ==
    op \in {"probabilities_dict", "probabilities_dict_from_bitstrings"} /\ ~res.err

\* the qubits of the call
SearchQubits == QubitsOf(res.qargs, num_qubits)

\* The positions of the outcome a node is entered with that are X and whose
\* qubit is not deterministic in the tableau the node works on.
OpenPositions(nd) ==
    {i \in 0..(Len(nd.entry) - 1) :
        /\ nd.entry[i + 1] = "X"
        /\ ~_is_qubit_deterministic(nd.ret, num_qubits, QubitOf(SearchQubits, i))}

\* C27 (as stated): at every node of the search the branch point is the first
\* (lowest-index, leftmost) position that is still X and not deterministic.
C27_BranchAtFirstOpenPosition ==
    SearchDone =>
        \A j \in DOMAIN res.nodes :
            OpenPositions(res.nodes[j]) # {} =>
                /\ res.nodes[j].branching \in OpenPositions(res.nodes[j])
                /\ \A i \in OpenPositions(res.nodes[j]) : res.nodes[j].branching <= i

\* C27 (corrected): at every node of the search the branch point is the last
\* (highest-index, rightmost) position that is still X and not deterministic,
\* and there is no branch point (-1) when there is no such position.
C27_BranchAtLastOpenPosition ==
    SearchDone =>
        \A j \in DOMAIN res.nodes :
            /\ OpenPositions(res.nodes[j]) = {} => res.nodes[j].branching = -1
            /\ OpenPositions(res.nodes[j]) # {} =>
                   /\ res.nodes[j].branching \in OpenPositions(res.nodes[j])
                   /\ \A i \in OpenPositions(res.nodes[j]) : i <= res.nodes[j].branching

\* a node with two open positions, reached below another node
C27_Witness ==
    /\ SearchDone
    /\ \E j \in DOMAIN res.nodes :
           /\ Cardinality(OpenPositions(res.nodes[j])) >= 2
           /\ res.nodes[j].branching = 1
    /\ \E j \in DOMAIN res.nodes : res.nodes[j].depth = 2

\* the number of X positions of an outcome
XCount(outcome) == Cardinality({i \in DOMAIN outcome : outcome[i] = "X"})

\* The call that made call j (j is entered at depth > 0): the last call
\* entered before j one level up.
ParentOf(j) ==
    CHOOSE i \in 1..(j - 1) :
        /\ res.nodes[i].depth = res.nodes[j].depth - 1
        /\ \A l \in (i + 1)..(j - 1) : res.nodes[l].depth >= res.nodes[j].depth

\* call j made a recursive call: the next call entered is one level down
Recursed(j) ==
    j < Len(res.nodes) /\ res.nodes[j + 1].depth = res.nodes[j].depth + 1

\* C28: every probabilities call returns, and in it each recursive call of
\* _get_probabilities is entered with strictly fewer X positions than the call
\* that made it, a call with no X position that is not deterministic makes no
\* recursive call and writes one result (so that there are no more results
\* than such calls), and no call is entered deeper than the number k of
\* requested qubits.
C28_SearchTerminates ==
    SearchDone =>
        /\ \A j \in DOMAIN res.nodes :
               /\ res.nodes[j].depth <= Len(SearchQubits)
               /\ res.nodes[j].depth > 0 =>
                      XCount(res.nodes[j].entry) < XCount(res.nodes[ParentOf(j)].entry)
               /\ OpenPositions(res.nodes[j]) = {} =>
                      /\ ~Recursed(j)
                      /\ res.nodes[j].outcome \in DOMAIN res.probs
               /\ OpenPositions(res.nodes[j]) # {} => Recursed(j)
        /\ Cardinality(DOMAIN res.probs)
               <= Cardinality({j \in DOMAIN res.nodes : OpenPositions(res.nodes[j]) = {}})
        /\ res.nodes # <<>>

\* a search that reaches depth k = 2, where no X is left on entry
C28_Witness ==
    /\ SearchDone /\ Len(SearchQubits) = 2
    /\ \E j \in DOMAIN res.nodes :
           /\ res.nodes[j].depth = 2
           /\ XCount(res.nodes[j].entry) = 0
           /\ XCount(res.nodes[ParentOf(j)].entry) = 1
           /\ XCount(res.nodes[ParentOf(ParentOf(j))].entry) = 2

\* A call that resumes the search of a target from a cached partial key: it
\* is made by the loop over the targets (depth 0) with the key as its outcome.
Resumed(nd) == nd.depth = 0 /\ IsPartialKey(nd.entry)

\* the bit a measurement of qubit q returns on tableau c when q is deterministic
DeterministicBit(c, q) == _measure_and_update(c, num_qubits, q, 0).outcome

\* C29: whenever the search of a target resumes from a cached partial key K
\* with cached probability p, the tableau it continues from has every resolved
\* position of K measured: the qubit of the position is deterministic in it,
\* with K's bit as its outcome when p is not 0 (a key of probability 0 carries
\* the target's bit where the state has the other one).
C29_ResumesFromMeasuredState ==
    SearchDone =>
        \A j \in DOMAIN res.nodes :
            Resumed(res.nodes[j]) =>
                \A i \in 0..(Len(res.nodes[j].entry) - 1) :
                    res.nodes[j].entry[i + 1] # "X" =>
                        /\ _is_qubit_deterministic(res.nodes[j].ret, num_qubits,
                                                    QubitOf(SearchQubits, i))
                        /\ res.nodes[j].entry_prob > 0 =>
                               Str(DeterministicBit(res.nodes[j].ret,
                                                    QubitOf(SearchQubits, i)))
                                   = res.nodes[j].entry[i + 1]

\* The state of the circuit H(0), H(2), CX(0,1), CX(0,3), CX(2,3) with the
\* targets "0000" and "0100": the second search resumes from the key "XX00"
\* with probability 1/2, finds no tableau under it and continues from the
\* tableau of the receiver, in which qubits 0 and 1 are not deterministic.
C29_Witness ==
    /\ SearchDone /\ num_qubits = 4 /\ res.use_caching
    /\ clifford = FromCircuit(4, {0, 2}, {<<0, 1>>, <<0, 3>>, <<2, 3>>})
    /\ res.target = TargetList(<<Zeros(4), <<"0", "1", "0", "0">>>>)
    /\ \E j \in DOMAIN res.nodes :
           /\ Resumed(res.nodes[j])
           /\ res.nodes[j].entry = <<"X", "X", "0", "0">>
           /\ res.nodes[j].entry_prob * 2 = ProbOne
           /\ ~res.nodes[j].hit
           /\ res.nodes[j].ret = clifford
           /\ ~_is_qubit_deterministic(clifford, num_qubits, 0)
           /\ ~_is_qubit_deterministic(clifford, num_qubits, 1)

\* Every qubit that is deterministic in tableau c is deterministic in tableau d,
\* with the same outcome.
KeepsDeterministic(c, d) ==
    \A q \in 0..(num_qubits - 1) :
        _is_qubit_deterministic(c, num_qubits, q) =>
            /\ _is_qubit_deterministic(d, num_qubits, q)
            /\ DeterministicBit(d, q) = DeterministicBit(c, q)

\* call i of the search is on the stack when call j is entered
IsAncestor(i, j) ==
    /\ i < j
    /\ \A l \in (i + 1)..j : res.nodes[l].depth > res.nodes[i].depth

\* C30: a qubit that is deterministic with outcome b before a call of
\* _measure_and_update (on any qubit, with any bit, after any earlier calls) is
\* deterministic with outcome b after it; and in the probability search the
\* tableau of a node keeps the deterministic qubits and outcomes of the tableau
\* of every node above it, and a position resolved at a node has the same
\* character at every node below it.
C30_DeterminismIsMonotone ==
    /\ op = "_measure_and_update" /\ ~res.err => KeepsDeterministic(res.before, clifford)
    /\ SearchDone =>
           \A j \in DOMAIN res.nodes : \A i \in 1..(j - 1) :
               IsAncestor(i, j) =>
                   /\ KeepsDeterministic(res.nodes[i].ret, res.nodes[j].ret)
                   /\ \A pos \in DOMAIN res.nodes[i].outcome :
                          res.nodes[i].outcome[pos] # "X" =>
                              /\ res.nodes[j].entry[pos] = res.nodes[i].outcome[pos]
                              /\ res.nodes[j].outcome[pos] = res.nodes[i].outcome[pos]

\* the second of two measurements changes the tableau and keeps a qubit that
\* was deterministic with outcome 1
C30_Witness ==
    /\ op = "_measure_and_update" /\ ~res.err /\ ~res.det /\ nmeas = 2
    /\ \E q \in 0..(num_qubits - 1) :
           /\ q # res.qubit
           /\ _is_qubit_deterministic(res.before, num_qubits, q)
           /\ DeterministicBit(res.before, q) = 1
           /\ DeterministicBit(clifford, q) = 1

\* a search with a node two levels below the root, where a position resolved
\* at the root is kept
C30_WitnessSearch ==
    /\ SearchDone /\ nmeas > 0
    /\ \E j \in DOMAIN res.nodes :
           /\ res.nodes[j].depth = 1
           /\ IsAncestor(1, j)
           /\ \E pos \in DOMAIN res.nodes[1].outcome :
                  /\ res.nodes[1].entry[pos] = "X"
                  /\ res.nodes[1].outcome[pos] = "1"
                  /\ res.nodes[j].outcome[pos] = "1"
====
